---- MODULE Spec2Model ----
(***************************************************************************)
(* A state-machine model of the network request admission scheduler of     *)
(* services/network/resource_scheduler/resource_scheduler.cc:               *)
(* ResourceScheduler (the registry), ResourceScheduler::Client (the        *)
(* admission algorithm), RequestQueue (the pending queue) and               *)
(* ScheduledResourceRequestImpl (the handle).                               *)
(*                                                                         *)
(* Everything runs on one sequence, so every handler is one atomic action; *)
(* posted tasks are entries of the FIFO `tasks` and run as later actions.  *)
(***************************************************************************)
EXTENDS Integers, Sequences, FiniteSets, TLC

VARIABLES
    requests,                \* handle id -> ScheduledResourceRequestImpl fields
    clients,                 \* client_map_: ClientId -> Client fields, or NoClient
    unowned_requests,        \* ResourceScheduler::unowned_requests_
    tasks,                   \* the sequence's queue of posted tasks
    long_queued_timer,       \* long_queued_requests_dispatch_timer_.IsRunning()
    params_manager,          \* resource_scheduler_params_manager_ (external table)
    now,                     \* tick_clock_->NowTicks()
    http_rtt,                \* what NetworkQualityEstimator::GetHttpRTT() returns
    obs                      \* what the last handler did (history, not program state)

vars == <<requests, clients, unowned_requests, tasks, long_queued_timer,
          params_manager, now, http_rtt, obs>>

----------------------------------------------------------------------------
(* Bounds of the model *)

\* handles the general specification creates
MaxRequests == 2
\* handles the one-host scenario specification creates
MaxHostRequests == 8
\* the clock stops advancing here
MaxTime == 1
\* handles the per-host specification destroys
MaxRemoved == 1
\* fifo ordering ids one queue hands out
MaxFifo == 3
\* value of num_skipped_scans_due_to_scheduled_start_
MaxSkipped == 2
\* peer-to-peer connections the estimator reports
MaxP2P == 1
\* handles the capped specification creates
MaxCapRequests == 3
\* width in bits of int, the type of child_id and route_id, scaled down from
\* 32; ClientId, an int64_t, has twice the width
IdBits == 2
\* width in bits of size_t, scaled down from 64
SizeBits == 16
\* the number of values of size_t, the type of the Client's counts, whose
\* arithmetic wraps
SizeMod == 2 ^ SizeBits

----------------------------------------------------------------------------
(* Program constants *)

\* net::RequestPriority
THROTTLED == 0
IDLE == 1
LOWEST == 2
LOW == 3
MEDIUM == 4
HIGHEST == 5

\* net::EffectiveConnectionType
EFFECTIVE_CONNECTION_TYPE_UNKNOWN == 0
EFFECTIVE_CONNECTION_TYPE_OFFLINE == 1
EFFECTIVE_CONNECTION_TYPE_SLOW_2G == 2
EFFECTIVE_CONNECTION_TYPE_2G == 3
EFFECTIVE_CONNECTION_TYPE_3G == 4
EFFECTIVE_CONNECTION_TYPE_4G == 5

\* RequestAttributes bits
kAttributeNone == {}
kAttributeInFlight == {1}
kAttributeDelayable == {2}
kAttributeLayoutBlocking == {4}

kMaxNumDelayableRequestsPerHostPerClient == 6
kMaxNumDelayableWhileLayoutBlockingPerClient == 1
kDelayablePriorityThreshold == MEDIUM
kInFlightNonDelayableRequestCountPerClientThreshold == 1

\* mojom::kBrowserProcessId: the child id of the browser process itself
kBrowserProcessId == 0

\* ResourceScheduler::enabled_: the scheduler is constructed enabled
enabled == TRUE

\* an absent base::Optional<TimeTicks / TimeDelta / double>
None == -1

START_SYNC == "START_SYNC"
START_ASYNC == "START_ASYNC"

START_REQUEST == "START_REQUEST"
DO_NOT_START_REQUEST_AND_KEEP_SEARCHING == "DO_NOT_START_REQUEST_AND_KEEP_SEARCHING"
DO_NOT_START_REQUEST_AND_STOP_SEARCHING == "DO_NOT_START_REQUEST_AND_STOP_SEARCHING"

\* what ShouldStartRequest comes to when IsNonDelayableRequestAnticipated
\* calls GetHttpRTT on a null network_quality_estimator_: no answer, the
\* process dies
NULL_DEREFERENCE == "NULL_DEREFERENCE"

----------------------------------------------------------------------------
(* Domains *)

Max2(a, b) == IF a >= b THEN a ELSE b

ReqIds == 1 .. Max2(MaxRequests, MaxHostRequests)

\* child ids: the browser process and one renderer; the route id is fixed
ClientIds == {kBrowserProcessId, 1}

\* hosts "a" and "b" speak HTTP/1; host "m" supports request priorities
Hosts == {"a", "b", "m"}

\* HttpServerProperties::SupportsRequestPriority (external)
SupportsRequestPriority(host) == host = "m"

\* a ClientId with no Client object
NoClient == [exists |-> FALSE]

NoRequest == [state |-> "none"]

----------------------------------------------------------------------------
(* The scheduler's state as one record, so that a handler is a function    *)
(* from state to state and nested calls compose.                           *)

State == [requests |-> requests, clients |-> clients, unowned |-> unowned_requests,
          tasks |-> tasks, timer |-> long_queued_timer, obs |-> obs]

\* the history of one handler: whether a Client was handed a handle that is
\* in neither of its containers, whether Start met a ready handle, and the
\* handles whose resume callback it ran
NoObs == [foreign |-> FALSE, started_ready |-> FALSE, resumed |-> {},
          crashed |-> FALSE]

RequestAttributesAreSet(request_attributes, matching_attributes) ==
    matching_attributes \subseteq request_attributes

\* base::Contains(in_flight_requests_, request)
InFlight(s, c, r) == r \in s.clients[c].in_flight_requests

\* Position of r in a sequence, 0 when absent
IndexOf(seq, r) ==
    IF \E i \in 1 .. Len(seq) : seq[i] = r
    THEN CHOOSE i \in 1 .. Len(seq) : seq[i] = r
    ELSE 0

\* RequestQueue::IsQueued
IsQueued(s, c, r) == IndexOf(s.clients[c].pending_requests, r) # 0

\* RequestPriorityParams::GreaterThan
GreaterThan(a, b) ==
    IF a.priority # b.priority
    THEN a.priority > b.priority
    ELSE a.intra_priority > b.intra_priority

\* a sorter that breaks ties last in, first out
ScheduledResourceSorter_Lifo(a, b) ==
    IF a.priority # b.priority \/ a.intra_priority # b.intra_priority
    THEN GreaterThan(a, b)
    ELSE a.fifo_ordering > b.fifo_ordering

\* ScheduledResourceSorter::operator(): a sorts before b
ScheduledResourceSorter(a, b) ==
    IF a.priority # b.priority \/ a.intra_priority # b.intra_priority
    THEN GreaterThan(a, b)
    ELSE a.fifo_ordering < b.fifo_ordering

\* std::multiset::insert: before the first element that sorts after r
InsertSorted(reqs, seq, r) ==
    LET after == {i \in 1 .. Len(seq) : ScheduledResourceSorter(reqs[r], reqs[seq[i]])}
        k == IF after = {} THEN Len(seq) + 1
             ELSE CHOOSE i \in after : \A j \in after : i <= j
    IN  SubSeq(seq, 1, k - 1) \o <<r>> \o SubSeq(seq, k, Len(seq))

\* Insert that keeps the fifo ordering id of a request that has one
Insert_KeepsFifo(s, c, r) ==
    LET fresh == s.requests[r].fifo_ordering = 0
        id == IF fresh THEN s.clients[c].fifo_ordering_ids + 1
              ELSE s.requests[r].fifo_ordering
        reqs == [s.requests EXCEPT ![r].fifo_ordering = id]
    IN  [s EXCEPT !.requests = reqs,
                  !.clients[c].fifo_ordering_ids =
                      IF fresh THEN id ELSE @,
                  !.clients[c].pending_requests =
                      InsertSorted(reqs, s.clients[c].pending_requests, r)]

\* RequestQueue::Insert: a fresh fifo ordering id, then the ordered insert
Insert(s, c, r) ==
    LET id == s.clients[c].fifo_ordering_ids + 1
        reqs == [s.requests EXCEPT ![r].fifo_ordering = id]
    IN  [s EXCEPT !.requests = reqs,
                  !.clients[c].fifo_ordering_ids = id,
                  !.clients[c].pending_requests =
                      InsertSorted(reqs, s.clients[c].pending_requests, r)]

\* RequestQueue::Erase
Erase(s, c, r) ==
    LET q == s.clients[c].pending_requests
    IN  [s EXCEPT !.clients[c].pending_requests =
                      SelectSeq(q, LAMBDA x : x # r)]

----------------------------------------------------------------------------
(* ScheduledResourceRequestImpl *)

\* Start without the test of the request's status
Start_IgnoresCancel(s, r, start_mode) ==
    LET q  == s.requests[r]
        s0 == IF q.ready THEN [s EXCEPT !.obs.started_ready = TRUE] ELSE s
    IN  IF q.deferred
        THEN IF start_mode = START_ASYNC
             THEN [s0 EXCEPT !.tasks = Append(@, [kind |-> "Start", req |-> r,
                                                   client |-> 0])]
             ELSE [s0 EXCEPT !.requests[r].deferred = FALSE,
                             !.requests[r].ready = TRUE,
                             !.obs.resumed = @ \cup {r}]
        ELSE [s0 EXCEPT !.requests[r].ready = TRUE]

\* ScheduledResourceRequestImpl::Start
Start(s, r, start_mode) ==
    LET q  == s.requests[r]
        s0 == IF q.ready THEN [s EXCEPT !.obs.started_ready = TRUE] ELSE s
    IN  IF q.cancelled THEN s0
        ELSE IF q.deferred
        THEN IF start_mode = START_ASYNC
             THEN [s0 EXCEPT !.tasks = Append(@, [kind |-> "Start", req |-> r,
                                                   client |-> 0])]
             ELSE [s0 EXCEPT !.requests[r].deferred = FALSE,
                             !.requests[r].ready = TRUE,
                             !.obs.resumed = @ \cup {r}]
        ELSE [s0 EXCEPT !.requests[r].ready = TRUE]

----------------------------------------------------------------------------
(* ResourceScheduler::Client *)

\* Client::SetRequestAttributes: keeps the running counts in step
SetRequestAttributes(s, c, r, attributes) ==
    LET old_attributes == s.requests[r].attributes
        dec1 == IF RequestAttributesAreSet(old_attributes,
                       kAttributeInFlight \cup kAttributeDelayable) THEN 1 ELSE 0
        dec2 == IF RequestAttributesAreSet(old_attributes, kAttributeLayoutBlocking)
                THEN 1 ELSE 0
        inc1 == IF RequestAttributesAreSet(attributes,
                       kAttributeInFlight \cup kAttributeDelayable) THEN 1 ELSE 0
        inc2 == IF RequestAttributesAreSet(attributes, kAttributeLayoutBlocking)
                THEN 1 ELSE 0
    IN  IF old_attributes = attributes THEN s
        ELSE [s EXCEPT !.clients[c].in_flight_delayable_count =
                           (@ - dec1 + inc1) % SizeMod,
                       !.clients[c].total_layout_blocking_count =
                           (@ - dec2 + inc2) % SizeMod,
                       !.requests[r].attributes = attributes]

\* DetermineRequestAttributes that marks a request the page's layout waits
\* for
DetermineRequestAttributes_MarksLayoutBlocking(s, c, r) ==
    LET q == s.requests[r]
        in_flight == IF InFlight(s, c, r) THEN kAttributeInFlight ELSE kAttributeNone
        rest ==
            IF q.layout_blocking
               \/ RequestAttributesAreSet(q.attributes, kAttributeLayoutBlocking)
            THEN kAttributeLayoutBlocking
            ELSE IF q.priority < kDelayablePriorityThreshold
            THEN IF s.clients[c].params_for_network_quality
                        .delay_requests_on_multiplexed_connections
                 THEN kAttributeDelayable
                 ELSE IF ~SupportsRequestPriority(q.host)
                      THEN kAttributeDelayable
                      ELSE kAttributeNone
            ELSE kAttributeNone
    IN  in_flight \cup rest

\* Client::DetermineRequestAttributes
DetermineRequestAttributes(s, c, r) ==
    LET q == s.requests[r]
        in_flight == IF InFlight(s, c, r) THEN kAttributeInFlight ELSE kAttributeNone
        rest ==
            IF RequestAttributesAreSet(q.attributes, kAttributeLayoutBlocking)
            THEN kAttributeLayoutBlocking
            ELSE IF q.priority < kDelayablePriorityThreshold
            THEN IF s.clients[c].params_for_network_quality
                        .delay_requests_on_multiplexed_connections
                 THEN kAttributeDelayable
                 ELSE IF ~SupportsRequestPriority(q.host)
                      THEN kAttributeDelayable
                      ELSE kAttributeNone
            ELSE kAttributeNone
    IN  in_flight \cup rest

\* Client::InsertInFlightRequest
InsertInFlightRequest(s, c, r) ==
    LET s1 == [s EXCEPT !.clients[c].in_flight_requests = @ \cup {r}]
    IN  SetRequestAttributes(s1, c, r, DetermineRequestAttributes(s1, c, r))

\* Client::EraseInFlightRequest
EraseInFlightRequest(s, c, r) ==
    LET s1 == [s EXCEPT !.clients[c].in_flight_requests = @ \ {r}]
    IN  SetRequestAttributes(s1, c, r, kAttributeNone)

\* Client::ClearInFlightRequests
ClearInFlightRequests(s, c) ==
    [s EXCEPT !.clients[c].in_flight_requests = {},
              !.clients[c].in_flight_delayable_count = 0,
              !.clients[c].total_layout_blocking_count = 0]

\* a per-host limit reached one request early
ReachedMaxRequestsPerHostPerClient_OneEarly(s, c, active_request_host, supports) ==
    Cardinality({x \in s.clients[c].in_flight_requests :
                     s.requests[x].host = active_request_host}) + 1
        >= kMaxNumDelayableRequestsPerHostPerClient

\* Client::ReachedMaxRequestsPerHostPerClient
ReachedMaxRequestsPerHostPerClient(s, c, active_request_host, supports_priority) ==
    IF supports_priority
       /\ s.clients[c].params_for_network_quality
              .delay_requests_on_multiplexed_connections
    THEN FALSE
    ELSE Cardinality({x \in s.clients[c].in_flight_requests :
                          s.requests[x].host = active_request_host})
             >= kMaxNumDelayableRequestsPerHostPerClient

\* Client::StartRequest
StartRequest(s, c, r, start_mode) ==
    LET s1 == IF ~RequestAttributesAreSet(s.requests[r].attributes, kAttributeDelayable)
              THEN [s EXCEPT !.clients[c].last_non_delayable_request_start = now]
              ELSE s
    IN  Start(InsertInFlightRequest(s1, c, r), r, start_mode)

\* a P2P throttle that holds HIGHEST-priority requests back too
ShouldThrottleBrowserInitiatedRequestDueToP2PConnections_AnyPriority(s, c, r) ==
    LET cl == s.clients[c]
        q  == s.requests[r]
    IN  IF ~params_manager.pause_browser_initiated_heavy_traffic_for_p2p THEN FALSE
        ELSE IF cl.p2p_connections_count = 0
                /\ cl.p2p_connections_count_end_timestamp = None THEN FALSE
        ELSE IF cl.p2p_connections_count = 0
                /\ now - cl.p2p_connections_count_end_timestamp
                       >= params_manager.time_to_pause_after_end_of_p2p THEN FALSE
        ELSE IF cl.effective_connection_type <= EFFECTIVE_CONNECTION_TYPE_OFFLINE
                \/ cl.effective_connection_type >= EFFECTIVE_CONNECTION_TYPE_4G
             THEN FALSE
        ELSE IF cl.p2p_connections_count > 0
                /\ now - cl.p2p_connections_count_active_timestamp
                       > params_manager.max_wait_time_p2p_connections THEN FALSE
        ELSE q.can_throttle

\* Client::ShouldThrottleBrowserInitiatedRequestDueToP2PConnections
ShouldThrottleBrowserInitiatedRequestDueToP2PConnections(s, c, r) ==
    LET cl == s.clients[c]
        q  == s.requests[r]
    IN  IF ~params_manager.pause_browser_initiated_heavy_traffic_for_p2p THEN FALSE
        ELSE IF cl.p2p_connections_count = 0
                /\ cl.p2p_connections_count_end_timestamp = None THEN FALSE
        ELSE IF cl.p2p_connections_count = 0
                /\ now - cl.p2p_connections_count_end_timestamp
                       >= params_manager.time_to_pause_after_end_of_p2p THEN FALSE
        ELSE IF cl.effective_connection_type <= EFFECTIVE_CONNECTION_TYPE_OFFLINE
                \/ cl.effective_connection_type >= EFFECTIVE_CONNECTION_TYPE_4G
             THEN FALSE
        ELSE IF q.priority = HIGHEST THEN FALSE
        ELSE IF cl.p2p_connections_count > 0
                /\ now - cl.p2p_connections_count_active_timestamp
                       > params_manager.max_wait_time_p2p_connections THEN FALSE
        ELSE q.can_throttle

\* Client::IsNonDelayableRequestAnticipated
IsNonDelayableRequestAnticipated(s, c) ==
    LET cl == s.clients[c]
        http_rtt_multiplier ==
            cl.params_for_network_quality.http_rtt_multiplier_for_proactive_throttling
    IN  IF http_rtt_multiplier = None THEN FALSE
        ELSE IF http_rtt_multiplier <= 0 THEN FALSE
        ELSE IF cl.last_non_delayable_request_start = None THEN FALSE
        ELSE IF http_rtt = None THEN FALSE
        ELSE ~(now - cl.last_non_delayable_request_start
                   >= http_rtt * http_rtt_multiplier)

\* whether IsNonDelayableRequestAnticipated gets as far as asking the
\* estimator for the HTTP RTT
ReadsHttpRtt(s, c) ==
    LET cl == s.clients[c]
        http_rtt_multiplier ==
            cl.params_for_network_quality.http_rtt_multiplier_for_proactive_throttling
    IN  /\ http_rtt_multiplier # None
        /\ http_rtt_multiplier > 0
        /\ cl.last_non_delayable_request_start # None

\* a max_queuing_time that has passed only once the wait exceeds it
QueuedTooLong_Late(s, c, r) ==
    LET max_queuing_time == s.clients[c].params_for_network_quality.max_queuing_time
    IN  /\ max_queuing_time # None
        /\ now - s.requests[r].creation_time > max_queuing_time

\* a max_queuing_time that never passes
QueuedTooLong_Never(s, c, r) == FALSE

\* the max_queuing_time test of ShouldStartRequest
QueuedTooLong(s, c, r) ==
    LET max_queuing_time == s.clients[c].params_for_network_quality.max_queuing_time
    IN  /\ max_queuing_time # None
        /\ now - s.requests[r].creation_time >= max_queuing_time

\* static_cast<size_t>(non_delayable_weight * count). The weight is a double,
\* that is mantissa / 2^exponent with integers mantissa >= 0 and exponent >= 0
\* (a ratio such as 15/11 is no double and is no weight here). The count is
\* converted to double and the product is computed in double: it is exact
\* while mantissa * count < 2^53, which holds of every weight and count of
\* this module, so that the conversion to size_t, which truncates, gives the
\* floor of the exact product.
WeightedCount(weight, count) == (weight.mantissa * count) \div (2 ^ weight.exponent)

\* ShouldStartRequest that tests the per-host cap before the global cap
ShouldStartRequest_HostCapFirst(s, c, r) ==
    LET cl == s.clients[c]
        q  == s.requests[r]
        pm == cl.params_for_network_quality
        supports_priority == SupportsRequestPriority(q.host)
        in_flight == Cardinality(cl.in_flight_requests)
        non_delayable == (in_flight - cl.in_flight_delayable_count) % SizeMod
    IN  IF ~enabled THEN START_REQUEST
        ELSE IF cl.is_browser_client
        THEN IF ShouldThrottleBrowserInitiatedRequestDueToP2PConnections(s, c, r)
             THEN DO_NOT_START_REQUEST_AND_KEEP_SEARCHING
             ELSE START_REQUEST
        ELSE IF ~q.is_async THEN START_REQUEST
        ELSE IF ~q.is_http THEN START_REQUEST
        ELSE IF QueuedTooLong(s, c, r) THEN START_REQUEST
        ELSE IF ~pm.delay_requests_on_multiplexed_connections /\ supports_priority
             THEN START_REQUEST
        ELSE IF ~RequestAttributesAreSet(q.attributes, kAttributeDelayable)
             THEN START_REQUEST
        ELSE IF ReachedMaxRequestsPerHostPerClient(s, c, q.host, supports_priority)
             THEN DO_NOT_START_REQUEST_AND_KEEP_SEARCHING
        ELSE IF (cl.in_flight_delayable_count
                     + WeightedCount(pm.non_delayable_weight, non_delayable))
                        % SizeMod
                    >= pm.max_delayable_requests
             THEN DO_NOT_START_REQUEST_AND_STOP_SEARCHING
        ELSE IF cl.total_layout_blocking_count # 0
                /\ non_delayable > kInFlightNonDelayableRequestCountPerClientThreshold
             THEN DO_NOT_START_REQUEST_AND_STOP_SEARCHING
        ELSE IF cl.total_layout_blocking_count # 0
                /\ in_flight > 0
                /\ cl.in_flight_delayable_count
                       >= kMaxNumDelayableWhileLayoutBlockingPerClient
             THEN DO_NOT_START_REQUEST_AND_STOP_SEARCHING
        ELSE IF ~cl.has_network_quality_estimator /\ ReadsHttpRtt(s, c)
             THEN NULL_DEREFERENCE
        ELSE IF IsNonDelayableRequestAnticipated(s, c)
             THEN DO_NOT_START_REQUEST_AND_STOP_SEARCHING
        ELSE START_REQUEST

\* Client::ShouldStartRequest, the admission decision
ShouldStartRequest(s, c, r) ==
    LET cl == s.clients[c]
        q  == s.requests[r]
        pm == cl.params_for_network_quality
        supports_priority == SupportsRequestPriority(q.host)
        in_flight == Cardinality(cl.in_flight_requests)
        non_delayable == (in_flight - cl.in_flight_delayable_count) % SizeMod
    IN  IF ~enabled THEN START_REQUEST
        ELSE IF cl.is_browser_client
        THEN IF ShouldThrottleBrowserInitiatedRequestDueToP2PConnections(s, c, r)
             THEN DO_NOT_START_REQUEST_AND_KEEP_SEARCHING
             ELSE START_REQUEST
        ELSE IF ~q.is_async THEN START_REQUEST
        ELSE IF ~q.is_http THEN START_REQUEST
        ELSE IF QueuedTooLong(s, c, r) THEN START_REQUEST
        ELSE IF ~pm.delay_requests_on_multiplexed_connections /\ supports_priority
             THEN START_REQUEST
        ELSE IF ~RequestAttributesAreSet(q.attributes, kAttributeDelayable)
             THEN START_REQUEST
        ELSE IF (cl.in_flight_delayable_count
                     + WeightedCount(pm.non_delayable_weight, non_delayable))
                        % SizeMod
                    >= pm.max_delayable_requests
             THEN DO_NOT_START_REQUEST_AND_STOP_SEARCHING
        ELSE IF ReachedMaxRequestsPerHostPerClient(s, c, q.host, supports_priority)
             THEN DO_NOT_START_REQUEST_AND_KEEP_SEARCHING
        ELSE IF cl.total_layout_blocking_count # 0
                /\ non_delayable > kInFlightNonDelayableRequestCountPerClientThreshold
             THEN DO_NOT_START_REQUEST_AND_STOP_SEARCHING
        ELSE IF cl.total_layout_blocking_count # 0
                /\ in_flight > 0
                /\ cl.in_flight_delayable_count
                       >= kMaxNumDelayableWhileLayoutBlockingPerClient
             THEN DO_NOT_START_REQUEST_AND_STOP_SEARCHING
        ELSE IF ~cl.has_network_quality_estimator /\ ReadsHttpRtt(s, c)
             THEN NULL_DEREFERENCE
        ELSE IF IsNonDelayableRequestAnticipated(s, c)
             THEN DO_NOT_START_REQUEST_AND_STOP_SEARCHING
        ELSE START_REQUEST

\* ScheduleLoadAnyStartablePendingRequests that posts a task per call
ScheduleLoadAnyStartablePendingRequests_Always(s, c) ==
    [s EXCEPT !.tasks = Append(@, [kind |-> "LoadAny", req |-> 0, client |-> c]),
              !.clients[c].num_skipped_scans_due_to_scheduled_start = @ + 1]

\* ScheduleLoadAnyStartablePendingRequests that counts the scan before it
\* looks at the count
ScheduleLoadAnyStartablePendingRequests_CountsFirst(s, c) ==
    LET s0 == [s EXCEPT !.clients[c].num_skipped_scans_due_to_scheduled_start = @ + 1]
    IN  IF s0.clients[c].num_skipped_scans_due_to_scheduled_start = 0
        THEN [s0 EXCEPT !.tasks = Append(@, [kind |-> "LoadAny", req |-> 0,
                                             client |-> c])]
        ELSE s0

\* Client::ScheduleLoadAnyStartablePendingRequests: one posted task per burst
ScheduleLoadAnyStartablePendingRequests(s, c) ==
    LET s1 == IF s.clients[c].num_skipped_scans_due_to_scheduled_start = 0
              THEN [s EXCEPT !.tasks = Append(@, [kind |-> "LoadAny", req |-> 0,
                                                  client |-> c])]
              ELSE s
    IN  [s1 EXCEPT !.clients[c].num_skipped_scans_due_to_scheduled_start = @ + 1]

\* a walk that goes on from request_iter after a start, not from the head
RECURSIVE LoadLoop_NoRestart(_, _, _)
LoadLoop_NoRestart(s, c, i) ==
    LET pending == s.clients[c].pending_requests
    IN  IF i > Len(pending) THEN s
        ELSE LET request == pending[i]
                 query_result == ShouldStartRequest(s, c, request)
             IN  IF query_result = START_REQUEST
                 THEN LoadLoop_NoRestart(
                          StartRequest(Erase(s, c, request), c, request,
                                       START_ASYNC), c, i + 1)
                 ELSE IF query_result = DO_NOT_START_REQUEST_AND_KEEP_SEARCHING
                 THEN LoadLoop_NoRestart(s, c, i + 1)
                 ELSE s

\* a walk that starts what it admits synchronously
RECURSIVE LoadLoop_Sync(_, _, _)
LoadLoop_Sync(s, c, i) ==
    LET pending == s.clients[c].pending_requests
    IN  IF i > Len(pending) THEN s
        ELSE LET request == pending[i]
                 query_result == ShouldStartRequest(s, c, request)
             IN  IF query_result = START_REQUEST
                 THEN LoadLoop_Sync(StartRequest(Erase(s, c, request), c, request,
                                                 START_SYNC), c, 1)
                 ELSE IF query_result = DO_NOT_START_REQUEST_AND_KEEP_SEARCHING
                 THEN LoadLoop_Sync(s, c, i + 1)
                 ELSE s

\* an iteration that does not move request_iter past a request it keeps
LoadStep_NoAdvance(s, c, i) ==
    LET request == s.clients[c].pending_requests[i]
        query_result == ShouldStartRequest(s, c, request)
    IN  IF query_result = START_REQUEST
        THEN LET s1 == StartRequest(Erase(s, c, request), c, request, START_ASYNC)
             IN  [s |-> s1, i |-> 1, done |-> s1.clients[c].pending_requests = <<>>]
        ELSE IF query_result = DO_NOT_START_REQUEST_AND_KEEP_SEARCHING
        THEN [s |-> s, i |-> i, done |-> FALSE]
        ELSE [s |-> s, i |-> i, done |-> TRUE]

\* one iteration of the while loop of LoadAnyStartablePendingRequests with
\* request_iter at index i: the state and the iterator it leaves, and
\* whether it left the loop by a break
LoadStep(s, c, i) ==
    LET request == s.clients[c].pending_requests[i]
        query_result == ShouldStartRequest(s, c, request)
    IN  IF query_result = START_REQUEST
        THEN LET s1 == StartRequest(Erase(s, c, request), c, request, START_ASYNC)
             IN  [s |-> s1, i |-> 1, done |-> s1.clients[c].pending_requests = <<>>]
        ELSE IF query_result = DO_NOT_START_REQUEST_AND_KEEP_SEARCHING
        THEN [s |-> s, i |-> i + 1, done |-> FALSE]
        ELSE IF query_result = NULL_DEREFERENCE
        THEN [s |-> [s EXCEPT !.obs.crashed = TRUE], i |-> i, done |-> TRUE]
        ELSE [s |-> s, i |-> i, done |-> TRUE]

\* a walk that ends with its first start
RECURSIVE LoadLoop_OneStart(_, _, _)
LoadLoop_OneStart(s, c, i) ==
    LET pending == s.clients[c].pending_requests
    IN  IF i > Len(pending) THEN s
        ELSE LET request == pending[i]
                 query_result == ShouldStartRequest(s, c, request)
             IN  IF query_result = START_REQUEST
                 THEN StartRequest(Erase(s, c, request), c, request, START_ASYNC)
                 ELSE IF query_result = DO_NOT_START_REQUEST_AND_KEEP_SEARCHING
                 THEN LoadLoop_OneStart(s, c, i + 1)
                 ELSE s

\* the while loop of LoadAnyStartablePendingRequests, request_iter at index i
RECURSIVE LoadLoop(_, _, _)
LoadLoop(s, c, i) ==
    LET pending == s.clients[c].pending_requests
    IN  IF i > Len(pending) THEN s
        ELSE LET request == pending[i]
                 query_result == ShouldStartRequest(s, c, request)
             IN  IF query_result = START_REQUEST
                 THEN LoadLoop(StartRequest(Erase(s, c, request), c, request,
                                            START_ASYNC), c, 1)
                 ELSE IF query_result = DO_NOT_START_REQUEST_AND_KEEP_SEARCHING
                 THEN LoadLoop(s, c, i + 1)
                 ELSE IF query_result = NULL_DEREFERENCE
                 THEN [s EXCEPT !.obs.crashed = TRUE]
                 ELSE s

\* Client::LoadAnyStartablePendingRequests, one Reconsider pass
LoadAnyStartablePendingRequests(s, c) ==
    LET s0 == [s EXCEPT !.clients[c].num_skipped_scans_due_to_scheduled_start = 0]
    IN  LoadLoop(s0, c, 1)

\* Client::ScheduleRequest
ClientScheduleRequest(s, c, r) ==
    LET s1 == SetRequestAttributes(s, c, r, DetermineRequestAttributes(s, c, r))
        query_result == ShouldStartRequest(s1, c, r)
    IN  IF query_result = START_REQUEST
        THEN StartRequest(s1, c, r, START_SYNC)
        ELSE IF query_result = NULL_DEREFERENCE
        THEN [s1 EXCEPT !.obs.crashed = TRUE]
        ELSE Insert(s1, c, r)

\* RemoveRequest that does not look at the queue afterwards
ClientRemoveRequest_NoPass(s, c, r) ==
    IF IsQueued(s, c, r) THEN Erase(s, c, r) ELSE EraseInFlightRequest(s, c, r)

\* RemoveRequest that looks at the queue before it frees the slot
ClientRemoveRequest_PassBeforeErase(s, c, r) ==
    IF IsQueued(s, c, r) THEN Erase(s, c, r)
    ELSE EraseInFlightRequest(LoadAnyStartablePendingRequests(s, c), c, r)

\* RemoveRequest that runs a pass after erasing a pending handle too
ClientRemoveRequest_PassAlways(s, c, r) ==
    IF IsQueued(s, c, r)
    THEN LoadAnyStartablePendingRequests(Erase(s, c, r), c)
    ELSE LET s1 == [s EXCEPT !.obs.foreign = @ \/ ~InFlight(s, c, r)]
         IN  LoadAnyStartablePendingRequests(EraseInFlightRequest(s1, c, r), c)

\* Client::RemoveRequest
ClientRemoveRequest(s, c, r) ==
    IF IsQueued(s, c, r)
    THEN Erase(s, c, r)
    ELSE LET s1 == [s EXCEPT !.obs.foreign = @ \/ ~InFlight(s, c, r)]
         IN  LoadAnyStartablePendingRequests(EraseInFlightRequest(s1, c, r), c)

\* a first loop that starts the pending requests synchronously
RECURSIVE StartAllPending_Sync(_, _)
StartAllPending_Sync(s, c) ==
    LET pending == s.clients[c].pending_requests
    IN  IF pending = <<>> THEN s
        ELSE StartAllPending_Sync(
                 StartRequest(Erase(s, c, pending[1]), c, pending[1], START_SYNC), c)

\* the first loop of StartAndRemoveAllRequests
RECURSIVE StartAllPending(_, _)
StartAllPending(s, c) ==
    LET pending == s.clients[c].pending_requests
    IN  IF pending = <<>> THEN s
        ELSE StartAllPending(
                 StartRequest(Erase(s, c, pending[1]), c, pending[1], START_ASYNC), c)

\* Client::StartAndRemoveAllRequests; the set it returns is in_flight_requests
\* of the state before ClearInFlightRequests, see OnClientDeleted
StartAndRemoveAllRequests(s, c) ==
    LET s1 == StartAllPending(s, c)
        unowned == s1.clients[c].in_flight_requests
        s2 == [s1 EXCEPT !.requests = [x \in DOMAIN @ |->
                   IF x \in unowned THEN [@[x] EXCEPT !.attributes = kAttributeNone]
                   ELSE @[x]]]
    IN  ClearInFlightRequests(s2, c)

\* ReprioritizeRequest that posts no re-evaluation
ClientReprioritizeRequest_NoPost(s, c, r, old_priority_params, new_priority_params) ==
    LET s1 == [s EXCEPT !.requests[r].priority = new_priority_params.priority,
                        !.requests[r].intra_priority = new_priority_params.intra_priority]
        s2 == SetRequestAttributes(s1, c, r, DetermineRequestAttributes(s1, c, r))
    IN  IF ~IsQueued(s2, c, r) THEN s2 ELSE Insert(Erase(s2, c, r), c, r)

\* ReprioritizeRequest that schedules a pass whenever the key changes
ClientReprioritizeRequest_PassOnAnyChange(s, c, r, old_priority_params, new_priority_params) ==
    LET s1 == [s EXCEPT !.requests[r].priority = new_priority_params.priority,
                        !.requests[r].intra_priority = new_priority_params.intra_priority]
        s2 == SetRequestAttributes(s1, c, r, DetermineRequestAttributes(s1, c, r))
    IN  IF ~IsQueued(s2, c, r)
        THEN ScheduleLoadAnyStartablePendingRequests(
                 [s2 EXCEPT !.obs.foreign = @ \/ ~InFlight(s2, c, r)], c)
        ELSE ScheduleLoadAnyStartablePendingRequests(
                 Insert(Erase(s2, c, r), c, r), c)

\* Client::ReprioritizeRequest
ClientReprioritizeRequest(s, c, r, old_priority_params, new_priority_params) ==
    LET s1 == [s EXCEPT !.requests[r].priority = new_priority_params.priority,
                        !.requests[r].intra_priority = new_priority_params.intra_priority]
        s2 == SetRequestAttributes(s1, c, r, DetermineRequestAttributes(s1, c, r))
    IN  IF ~IsQueued(s2, c, r)
        THEN [s2 EXCEPT !.obs.foreign = @ \/ ~InFlight(s2, c, r)]
        ELSE LET s3 == Insert(Erase(s2, c, r), c, r)
             IN  IF new_priority_params.priority > old_priority_params.priority
                 THEN ScheduleLoadAnyStartablePendingRequests(s3, c)
                 ELSE s3

----------------------------------------------------------------------------
(* ResourceSchedulerParamsManager (external): the table keyed by effective *)
(* connection type, and the peer-to-peer throttle settings                  *)

\* ParamsForNetworkQuality's default: 10 delayable requests, weight 0.0,
\* no delay on multiplexed connections, no max queuing time, no multiplier
DefaultParams ==
    [max_delayable_requests |-> 10,
     non_delayable_weight |-> [mantissa |-> 0, exponent |-> 0],
     delay_requests_on_multiplexed_connections |-> FALSE,
     max_queuing_time |-> None,
     http_rtt_multiplier_for_proactive_throttling |-> None]

EffectiveConnectionTypes ==
    {EFFECTIVE_CONNECTION_TYPE_UNKNOWN, EFFECTIVE_CONNECTION_TYPE_2G,
     EFFECTIVE_CONNECTION_TYPE_4G}

\* the default table: every connection type has the default params
DefaultManager ==
    [table |-> [e \in EffectiveConnectionTypes |-> DefaultParams],
     pause_browser_initiated_heavy_traffic_for_p2p |-> TRUE,
     time_to_pause_after_end_of_p2p |-> 1,
     max_wait_time_p2p_connections |-> 1]

\* a table as an experiment configures it: 2G is tight on every setting,
\* 4G lowers the cap and counts a non-delayable request as half a delayable
\* one (weight 0.5)
TightManager ==
    [DefaultManager EXCEPT
        !.table[EFFECTIVE_CONNECTION_TYPE_2G] =
            [max_delayable_requests |-> 1,
             non_delayable_weight |-> [mantissa |-> 1, exponent |-> 0],
             delay_requests_on_multiplexed_connections |-> TRUE,
             max_queuing_time |-> 2,
             http_rtt_multiplier_for_proactive_throttling |-> 1],
        !.table[EFFECTIVE_CONNECTION_TYPE_4G] =
            [DefaultParams EXCEPT
                !.max_delayable_requests = 2,
                !.non_delayable_weight = [mantissa |-> 1, exponent |-> 1]]]

\* ResourceSchedulerParamsManager::GetParamsForEffectiveConnectionType
GetParamsForEffectiveConnectionType(effective_connection_type) ==
    params_manager.table[effective_connection_type]

----------------------------------------------------------------------------
(* ResourceScheduler *)

\* Client::HasNoPendingRequests is false for some client
PendingRequestFound(s) ==
    \E c \in DOMAIN s.clients :
        s.clients[c].exists /\ s.clients[c].pending_requests # <<>>

\* ResourceScheduler::StartLongQueuedRequestsDispatchTimerIfNeeded
StartLongQueuedRequestsDispatchTimerIfNeeded(s) ==
    IF PendingRequestFound(s) THEN [s EXCEPT !.timer = TRUE] ELSE s

\* the ScheduledResourceRequestImpl constructor
NewRequest(c, d) ==
    [state |-> "live", client_id |-> c, owned |-> FALSE,
     priority |-> d.priority, intra_priority |-> 0, fifo_ordering |-> 0,
     attributes |-> kAttributeNone, is_async |-> d.is_async, host |-> d.host,
     is_http |-> d.is_http, ready |-> FALSE, deferred |-> FALSE,
     will_start_called |-> FALSE, cancelled |-> FALSE,
     ignore_limits |-> d.ignore_limits, can_throttle |-> d.can_throttle,
     creation_time |-> now,
     \* what the page knows and the scheduler is not told (history)
     layout_blocking |-> d.layout_blocking,
     \* whether the handle was pending and deferred when its client was
     \* deleted (history)
     drained |-> FALSE]

\* ScheduleRequest that forgets to start a request it does not queue
SchedulerScheduleRequest_NoStart(s, c, r, d) ==
    LET s1 == [s EXCEPT !.requests[r] = NewRequest(c, d)]
    IN  IF ~s.clients[c].exists
        THEN [s1 EXCEPT !.unowned = @ \cup {r}]
        ELSE ClientScheduleRequest([s1 EXCEPT !.requests[r].owned = TRUE], c, r)

\* ResourceScheduler::ScheduleRequest, for the new handle r
SchedulerScheduleRequest(s, c, r, d) ==
    LET s1 == [s EXCEPT !.requests[r] = NewRequest(c, d)]
    IN  IF ~s.clients[c].exists
        THEN Start([s1 EXCEPT !.unowned = @ \cup {r}], r, START_SYNC)
        ELSE LET s2 == ClientScheduleRequest(
                           [s1 EXCEPT !.requests[r].owned = TRUE],
                           c, r)
             IN  IF ~s2.timer THEN StartLongQueuedRequestsDispatchTimerIfNeeded(s2)
                 ELSE s2

\* ResourceScheduler::RemoveRequest
SchedulerRemoveRequest(s, r) ==
    IF r \in s.unowned THEN [s EXCEPT !.unowned = @ \ {r}]
    ELSE IF ~s.clients[s.requests[r].client_id].exists THEN s
    ELSE ClientRemoveRequest(s, s.requests[r].client_id, r)

\* the Client constructor
NewClient(c, has_estimator, effective_connection_type) ==
    [exists |-> TRUE,
     is_browser_client |-> (c = kBrowserProcessId),
     pending_requests |-> <<>>, fifo_ordering_ids |-> 0,
     in_flight_requests |-> {},
     in_flight_delayable_count |-> 0, total_layout_blocking_count |-> 0,
     num_skipped_scans_due_to_scheduled_start |-> 0,
     has_network_quality_estimator |-> has_estimator,
     effective_connection_type |->
         IF has_estimator THEN effective_connection_type
         ELSE EFFECTIVE_CONNECTION_TYPE_UNKNOWN,
     params_for_network_quality |->
         IF has_estimator
         THEN GetParamsForEffectiveConnectionType(effective_connection_type)
         ELSE DefaultParams,
     last_non_delayable_request_start |-> None,
     p2p_connections_count |-> 0,
     p2p_connections_count_active_timestamp |-> None,
     p2p_connections_count_end_timestamp |-> None,
     p2p_connections_count_ended_timer |-> FALSE,
     p2p_connections_count_ended_timer_delay |-> None]

\* the value of a two's complement bit pattern of the given width
ToSigned(pattern, bits) ==
    IF pattern >= 2 ^ (bits - 1) THEN pattern - 2 ^ bits ELSE pattern

\* operator| on two bit patterns of the given width
RECURSIVE BitOr(_, _, _)
BitOr(a, b, bits) ==
    IF bits = 0 THEN 0
    ELSE (IF a % 2 = 1 \/ b % 2 = 1 THEN 1 ELSE 0)
         + 2 * BitOr(a \div 2, b \div 2, bits - 1)

\* ResourceScheduler::MakeClientId: child_id is converted to ClientId and
\* shifted left by the width of int; route_id is converted to ClientId by the
\* usual arithmetic conversions, which extend its sign
MakeClientId(child_id, route_id) ==
    LET bits    == 2 * IdBits
        shifted == (child_id * 2 ^ IdBits) % 2 ^ bits
        route   == route_id % 2 ^ bits
    IN  ToSigned(BitOr(shifted, route, bits), bits)

\* client_map_[client_id] = std::move(client) in OnClientCreated. Where
\* the map holds a Client under the identifier (the DCHECK before the
\* assignment fails; without DCHECKs the assignment goes on), that Client is
\* destroyed: its weak pointers are invalidated, so its posted tasks do
\* nothing, and its requests stay registered with no Client object (`owned`,
\* history).
AssignClient(s, client_id, client) ==
    IF ~s.clients[client_id].exists
    THEN [s EXCEPT !.clients[client_id] = client]
    ELSE [s EXCEPT !.clients[client_id] = client,
                   !.tasks = SelectSeq(@, LAMBDA task :
                                 ~(task.kind = "LoadAny" /\ task.client = client_id)),
                   !.requests = [x \in DOMAIN @ |->
                       IF @[x].state = "live" /\ @[x].client_id = client_id
                       THEN [@[x] EXCEPT !.owned = FALSE]
                       ELSE @[x]]]

\* ResourceScheduler::OnClientCreated
SchedulerOnClientCreated(s, c, has_estimator, effective_connection_type) ==
    AssignClient(s, c, NewClient(c, has_estimator, effective_connection_type))

\* ResourceScheduler::OnClientDeleted. Destroying the Client invalidates its
\* weak pointers: its posted LoadAnyStartablePendingRequests tasks would do
\* nothing when run, and leave the queue here. `owned` (history) records that
\* the handle's Client object is gone, `drained` (history) that the first loop
\* of StartAndRemoveAllRequests took the handle, deferred, from the pending
\* queue.
SchedulerOnClientDeleted(s, c) ==
    LET s1 == StartAllPending(s, c)
        client_unowned_requests == s1.clients[c].in_flight_requests
        s2 == StartAndRemoveAllRequests(s, c)
    IN  [s2 EXCEPT !.unowned = @ \cup client_unowned_requests,
                   !.clients[c] = NoClient,
                   !.tasks = SelectSeq(@, LAMBDA task :
                                 ~(task.kind = "LoadAny" /\ task.client = c)),
                   !.requests = [x \in DOMAIN @ |->
                       IF @[x].state = "live" /\ @[x].client_id = c
                       THEN [@[x] EXCEPT !.owned = FALSE,
                                         !.drained = @ \/ (IsQueued(s, c, x)
                                                             /\ s.requests[x].deferred)]
                       ELSE @[x]]]

\* ReprioritizeRequest without the test of net::LOAD_IGNORE_LIMITS
SchedulerReprioritizeRequest_NoFlagTest(s, r, new_priority, new_intra_priority_value) ==
    LET q == s.requests[r]
        new_priority_params == [priority |-> new_priority,
                                intra_priority |-> new_intra_priority_value]
        old_priority_params == [priority |-> q.priority,
                                intra_priority |-> q.intra_priority]
    IN  IF old_priority_params = new_priority_params THEN s
        ELSE IF ~s.clients[q.client_id].exists
        THEN [s EXCEPT !.requests[r].priority = new_priority,
                       !.requests[r].intra_priority = new_intra_priority_value]
        ELSE ClientReprioritizeRequest(s, q.client_id, r, old_priority_params,
                                       new_priority_params)

\* ResourceScheduler::ReprioritizeRequest (the three-argument form)
SchedulerReprioritizeRequest(s, r, new_priority, new_intra_priority_value) ==
    LET q == s.requests[r]
        new_priority_params == [priority |-> new_priority,
                                intra_priority |-> new_intra_priority_value]
        old_priority_params == [priority |-> q.priority,
                                intra_priority |-> q.intra_priority]
    IN  IF q.ignore_limits THEN s
        ELSE IF old_priority_params = new_priority_params THEN s
        ELSE IF ~s.clients[q.client_id].exists
        THEN [s EXCEPT !.requests[r].priority = new_priority,
                       !.requests[r].intra_priority = new_intra_priority_value]
        ELSE ClientReprioritizeRequest(s, q.client_id, r, old_priority_params,
                                       new_priority_params)

\* the for loop of OnLongQueuedRequestsDispatchTimerFired over client_map_,
\* which std::map walks in increasing ClientId order
RECURSIVE FireAllClients(_, _)
FireAllClients(s, todo) ==
    IF todo = {} THEN s
    ELSE LET c == CHOOSE x \in todo : \A y \in todo : x <= y
         IN  FireAllClients(IF s.clients[c].exists
                            THEN LoadAnyStartablePendingRequests(s, c) ELSE s,
                            todo \ {c})

\* a firing that does not start the timer again
SchedulerOnLongQueuedRequestsDispatchTimerFired_NoRestart(s) ==
    FireAllClients([s EXCEPT !.timer = FALSE], DOMAIN s.clients)

\* ResourceScheduler::OnLongQueuedRequestsDispatchTimerFired; the one-shot
\* timer has stopped when its task runs
SchedulerOnLongQueuedRequestsDispatchTimerFired(s) ==
    StartLongQueuedRequestsDispatchTimerIfNeeded(
        FireAllClients([s EXCEPT !.timer = FALSE], DOMAIN s.clients))

\* OnEffectiveConnectionTypeChanged that runs its pass before it replaces
\* the params
ClientOnEffectiveConnectionTypeChanged_PassFirst(s, c, effective_connection_type) ==
    IF s.clients[c].effective_connection_type = effective_connection_type THEN s
    ELSE [LoadAnyStartablePendingRequests(s, c) EXCEPT
             !.clients[c].effective_connection_type = effective_connection_type,
             !.clients[c].params_for_network_quality =
                 GetParamsForEffectiveConnectionType(effective_connection_type)]

\* Client::OnEffectiveConnectionTypeChanged up to its pass: the new type is
\* stored and the params are looked up again
SetEffectiveConnectionType(s, c, effective_connection_type) ==
    [s EXCEPT !.clients[c].effective_connection_type = effective_connection_type,
              !.clients[c].params_for_network_quality =
                  GetParamsForEffectiveConnectionType(effective_connection_type)]

\* Client::OnEffectiveConnectionTypeChanged
ClientOnEffectiveConnectionTypeChanged(s, c, effective_connection_type) ==
    IF s.clients[c].effective_connection_type = effective_connection_type THEN s
    ELSE LoadAnyStartablePendingRequests(
             SetEffectiveConnectionType(s, c, effective_connection_type), c)

\* Client::OnPeerToPeerConnectionsCountChange up to its pass: when the last
\* connection ends, the end is recorded and the one-shot timer is started
\* with the delay the table has now, which it keeps until it is started
\* again; the count is stored and the active timestamp set or reset
SetPeerToPeerConnectionsCount(s, c, count) ==
    LET cl == s.clients[c]
        ended == cl.p2p_connections_count > 0 /\ count = 0
        s1 == IF ended
              THEN [s EXCEPT !.clients[c].p2p_connections_count_end_timestamp = now,
                             !.clients[c].p2p_connections_count_ended_timer = TRUE,
                             !.clients[c].p2p_connections_count_ended_timer_delay =
                                 params_manager.time_to_pause_after_end_of_p2p]
              ELSE s
        active == s1.clients[c].p2p_connections_count_active_timestamp
    IN  [s1 EXCEPT !.clients[c].p2p_connections_count = count,
                   !.clients[c].p2p_connections_count_active_timestamp =
                       IF count > 0 /\ active = None THEN now
                       ELSE IF count = 0 /\ active # None THEN None
                       ELSE active]

\* Client::OnPeerToPeerConnectionsCountChange
ClientOnPeerToPeerConnectionsCountChange(s, c, count) ==
    IF s.clients[c].p2p_connections_count = count THEN s
    ELSE LoadAnyStartablePendingRequests(
             SetPeerToPeerConnectionsCount(s, c, count), c)

\* p2p_connections_count_ended_timer_ has run for the delay it was started
\* with
EndedTimerIsDue(s, c) ==
    /\ s.clients[c].p2p_connections_count_ended_timer
    /\ now - s.clients[c].p2p_connections_count_end_timestamp
           >= s.clients[c].p2p_connections_count_ended_timer_delay

\* Client::OnP2PConnectionsCountEndedTimerFired
ClientOnP2PConnectionsCountEndedTimerFired(s, c) ==
    LoadAnyStartablePendingRequests(
        [s EXCEPT !.clients[c].p2p_connections_count_ended_timer = FALSE], c)

\* a task runner whose Start tasks die with the handle's client
RunHeadTask_DropsOrphans(s) ==
    LET task == Head(s.tasks)
        s1 == [s EXCEPT !.tasks = Tail(@)]
    IN  IF task.kind = "LoadAny"
        THEN LoadAnyStartablePendingRequests(s1, task.client)
        ELSE IF s.requests[task.req].state = "live" /\ task.req \notin s.unowned
             THEN Start(s1, task.req, START_SYNC)
             ELSE s1

\* running the task at the head of the sequence's queue; a Start task whose
\* handle is gone (its weak pointer invalidated) does nothing
RunHeadTask(s) ==
    LET task == Head(s.tasks)
        s1 == [s EXCEPT !.tasks = Tail(@)]
    IN  IF task.kind = "LoadAny"
        THEN LoadAnyStartablePendingRequests(s1, task.client)
        ELSE IF s.requests[task.req].state = "live"
             THEN Start(s1, task.req, START_SYNC)
             ELSE s1

----------------------------------------------------------------------------
(* The actions: one per entry point of the scheduler, per callback of its  *)
(* collaborators and per posted task                                        *)

Begin == [State EXCEPT !.obs = NoObs]

\* the caps on the unbounded counters
Bounded(s) ==
    /\ \A c \in DOMAIN s.clients : s.clients[c].exists =>
           /\ s.clients[c].fifo_ordering_ids <= MaxFifo
           /\ s.clients[c].num_skipped_scans_due_to_scheduled_start <= MaxSkipped

\* the handler's result becomes the scheduler's state; a handler that
\* dereferenced a null pointer ends the process, which takes no step after:
\* the state stays as the handler found it, marked
Apply(s) ==
    /\ ~obs.crashed
    /\ IF s.obs.crashed
       THEN /\ obs' = [NoObs EXCEPT !.crashed = TRUE]
            /\ UNCHANGED <<requests, clients, unowned_requests, tasks,
                           long_queued_timer>>
       ELSE /\ Bounded(s)
            /\ requests' = s.requests
            /\ clients' = s.clients
            /\ unowned_requests' = s.unowned
            /\ tasks' = s.tasks
            /\ long_queued_timer' = s.timer
            /\ obs' = s.obs
    /\ UNCHANGED <<params_manager, now, http_rtt>>

OnClientCreated(c, has_estimator, effective_connection_type) ==
    /\ ~clients[c].exists
    /\ Apply(SchedulerOnClientCreated(Begin, c,
                                      has_estimator, effective_connection_type))

OnClientDeleted(c) ==
    /\ clients[c].exists
    /\ Apply(SchedulerOnClientDeleted(Begin, c))

\* handles are numbered in creation order; 0 once max of them were created
NextHandle(max) ==
    IF \E r \in 1 .. max : requests[r].state = "none"
    THEN CHOOSE x \in 1 .. max :
             /\ requests[x].state = "none"
             /\ \A y \in 1 .. max : requests[y].state = "none" => x <= y
    ELSE 0

\* the caller creates at most max handles
ScheduleRequest(max, c, d) ==
    /\ NextHandle(max) # 0
    /\ Apply(SchedulerScheduleRequest(Begin, c, NextHandle(max), d))

\* ScheduledResourceRequestImpl::WillStartRequest, which the request's owner
\* calls once
WillStartRequest(r) ==
    /\ requests[r].state = "live"
    /\ ~requests[r].will_start_called
    /\ Apply([Begin EXCEPT
                 !.requests[r].deferred = ~requests[r].ready,
                 !.requests[r].will_start_called = TRUE])

\* the request fails or is cancelled by its owner: request_->status() is no
\* longer a success, which Start tests
CancelRequest(r) ==
    /\ requests[r].state = "live"
    /\ ~requests[r].cancelled
    /\ Apply([Begin EXCEPT !.requests[r].cancelled = TRUE])

\* ~ScheduledResourceRequestImpl: the handle de-registers itself
DestroyRequest(r) ==
    /\ requests[r].state = "live"
    /\ Apply([SchedulerRemoveRequest(Begin, r)
                 EXCEPT !.requests[r] = [state |-> "destroyed"]])

ReprioritizeRequest(r, new_priority, new_intra_priority_value) ==
    /\ requests[r].state = "live"
    /\ Apply(SchedulerReprioritizeRequest(
                 Begin, r,
                 new_priority, new_intra_priority_value))

OnEffectiveConnectionTypeChanged(c, effective_connection_type) ==
    /\ clients[c].exists
    /\ clients[c].has_network_quality_estimator
    /\ Apply(ClientOnEffectiveConnectionTypeChanged(
                 Begin, c,
                 effective_connection_type))

OnPeerToPeerConnectionsCountChange(c, count) ==
    /\ clients[c].exists
    /\ clients[c].has_network_quality_estimator
    /\ Apply(ClientOnPeerToPeerConnectionsCountChange(
                 Begin, c, count))

\* the one-shot timer fires once the delay it was started with has passed
OnP2PConnectionsCountEndedTimerFired(c) ==
    /\ clients[c].exists
    /\ EndedTimerIsDue(Begin, c)
    /\ Apply(ClientOnP2PConnectionsCountEndedTimerFired(
                 Begin, c))

OnLongQueuedRequestsDispatchTimerFired ==
    /\ long_queued_timer
    /\ Apply(SchedulerOnLongQueuedRequestsDispatchTimerFired(
                 Begin))

RunTask ==
    /\ tasks # <<>>
    /\ Apply(RunHeadTask(Begin))

\* the clock advances
Tick ==
    /\ ~obs.crashed
    /\ now < MaxTime
    /\ now' = now + 1
    /\ obs' = NoObs
    /\ UNCHANGED <<requests, clients, unowned_requests, tasks, long_queued_timer,
                   params_manager, http_rtt>>

\* the estimator's HTTP RTT estimate changes
HttpRttChanged(rtt) ==
    /\ ~obs.crashed
    /\ http_rtt # rtt
    /\ http_rtt' = rtt
    /\ obs' = NoObs
    /\ UNCHANGED <<requests, clients, unowned_requests, tasks, long_queued_timer,
                   params_manager, now>>

\* Client::UpdateParamsForNetworkQuality under the table given
UpdateParamsForNetworkQuality(resource_scheduler_params_manager, client) ==
    [client EXCEPT !.params_for_network_quality =
        resource_scheduler_params_manager.table[
            IF client.has_network_quality_estimator
            THEN client.effective_connection_type
            ELSE EFFECTIVE_CONNECTION_TYPE_UNKNOWN]]

\* ResourceScheduler::SetResourceSchedulerParamsManagerForTests: the table is
\* replaced and every client reads its params from the new one; no pass runs
SetResourceSchedulerParamsManagerForTests(resource_scheduler_params_manager) ==
    /\ ~obs.crashed
    /\ params_manager' = resource_scheduler_params_manager
    /\ clients' = [c \in DOMAIN clients |->
                      IF clients[c].exists
                      THEN UpdateParamsForNetworkQuality(
                               resource_scheduler_params_manager, clients[c])
                      ELSE clients[c]]
    /\ obs' = NoObs
    /\ UNCHANGED <<requests, unowned_requests, tasks, long_queued_timer, now,
                   http_rtt>>

----------------------------------------------------------------------------
(* The general specification: one renderer ClientId, whose Client object   *)
(* is created, deleted and created again, and handles submitted before,    *)
(* during and after its life. The clock stands still here; time-dependent   *)
(* rules are exercised by the specifications further down.                  *)

InitWith(managers, rtt) ==
    /\ requests = [r \in ReqIds |-> NoRequest]
    /\ clients = [c \in ClientIds |-> NoClient]
    /\ unowned_requests = {}
    /\ tasks = <<>>
    /\ long_queued_timer = FALSE
    /\ params_manager \in managers
    /\ now = 0
    /\ http_rtt = rtt
    /\ obs = NoObs

Init == InitWith({TightManager}, None)

Desc(priority, is_async, host) ==
    [priority |-> priority, is_async |-> is_async, host |-> host,
     is_http |-> TRUE, ignore_limits |-> FALSE, can_throttle |-> TRUE,
     layout_blocking |-> FALSE]

\* the request descriptors the general specification submits
Descriptors ==
    {Desc(LOW, TRUE, "a"), Desc(LOW, TRUE, "m"), Desc(LOW, FALSE, "a")}

\* the tables a test sets: the one the scheduler starts with and the default
TestManagers == {TightManager, DefaultManager}

\* the renderer's child id
Renderer == 1

SlowOrFast == {EFFECTIVE_CONNECTION_TYPE_2G, EFFECTIVE_CONNECTION_TYPE_4G}

Next ==
    \/ \E e \in SlowOrFast : OnClientCreated(Renderer, TRUE, e)
    \/ OnClientDeleted(Renderer)
    \/ \E d \in Descriptors : ScheduleRequest(MaxRequests, Renderer, d)
    \/ \E r \in 1 .. MaxRequests : DestroyRequest(r)
    \/ \E r \in 1 .. MaxRequests, p \in {LOW, MEDIUM} :
           ReprioritizeRequest(r, p, 0)
    \/ \E e \in SlowOrFast : OnEffectiveConnectionTypeChanged(Renderer, e)
    \/ \E manager \in TestManagers :
           SetResourceSchedulerParamsManagerForTests(manager)
    \/ OnLongQueuedRequestsDispatchTimerFired
    \/ RunTask

Spec == Init /\ [][Next]_vars

----------------------------------------------------------------------------
(* The per-host specification: one renderer client and up to              *)
(* MaxHostRequests asynchronous HTTP requests to one host that does not    *)
(* support priorities, of a delayable and a non-delayable priority. The    *)
(* clock stands still.                                                     *)

\* a table in which 2G bounds the queuing time and 4G throttles
\* proactively; every cap keeps its default
HostManager ==
    [DefaultManager EXCEPT
        !.table[EFFECTIVE_CONNECTION_TYPE_2G] =
            [DefaultParams EXCEPT !.max_queuing_time = 1],
        !.table[EFFECTIVE_CONNECTION_TYPE_4G] =
            [DefaultParams EXCEPT
                !.http_rtt_multiplier_for_proactive_throttling = 1]]

InitHost == InitWith({HostManager}, 1)

\* the page's non-delayable request is one its layout waits for
HostDescriptors ==
    {Desc(LOW, TRUE, "a"), [Desc(MEDIUM, TRUE, "a") EXCEPT !.layout_blocking = TRUE]}

\* the page's handles destroyed so far
Removed == {r \in ReqIds : requests[r].state = "destroyed"}

\* the page submits a request once its client is registered
PageSubmits(d) ==
    /\ clients[Renderer].exists
    /\ ScheduleRequest(MaxHostRequests, Renderer, d)

\* a request of the page completes or is cancelled, of which at most
\* MaxRemoved are
PageRemoves(r) ==
    /\ Cardinality(Removed) < MaxRemoved
    /\ DestroyRequest(r)

NextHost ==
    \/ \E e \in EffectiveConnectionTypes : OnClientCreated(Renderer, TRUE, e)
    \/ \E d \in HostDescriptors : PageSubmits(d)
    \/ \E r \in 1 .. MaxHostRequests : PageRemoves(r)
    \/ OnLongQueuedRequestsDispatchTimerFired

SpecHost == InitHost /\ [][NextHost]_vars

----------------------------------------------------------------------------
(* The timed specification: the same page while the clock runs, so that    *)
(* the maximum queuing time and the anticipation window matter. Its        *)
(* requests are delayable ones to one host, but for one that may be        *)
(* non-delayable and, at the end, one of a lower priority and one to a     *)
(* second host.                                                            *)

\* what the r-th handle may ask for
TimedDescriptors(r) ==
    IF r = 0 THEN {}
    ELSE {Desc(LOW, TRUE, "a")}
         \cup (IF r = MaxHostRequests - 3 THEN {Desc(MEDIUM, TRUE, "a")} ELSE {})
         \cup (IF r = MaxHostRequests - 1 THEN {Desc(LOWEST, TRUE, "a")} ELSE {})
         \cup (IF r = MaxHostRequests THEN {Desc(IDLE, TRUE, "b")} ELSE {})

NextTimed ==
    \/ \E e \in EffectiveConnectionTypes : OnClientCreated(Renderer, TRUE, e)
    \/ \E d \in TimedDescriptors(NextHandle(MaxHostRequests)) : PageSubmits(d)
    \/ \E r \in 1 .. MaxHostRequests : PageRemoves(r)
    \/ OnLongQueuedRequestsDispatchTimerFired
    \/ Tick

SpecTimed == InitHost /\ [][NextTimed]_vars

----------------------------------------------------------------------------
(* The synchronous specification: the page of the per-host specification   *)
(* with delayable requests only, the last of which may be synchronous, and *)
(* with re-prioritizations of the last two among the delayable priorities. *)

\* what the r-th handle may ask for
SyncDescriptors(r) ==
    IF r = 0 THEN {}
    ELSE {Desc(LOW, TRUE, "a")}
         \cup (IF r = MaxHostRequests THEN {Desc(LOW, FALSE, "a")} ELSE {})

\* the handles that are re-prioritized: the two submitted last, which are
\* the ones the per-host limit holds back
LastSubmitted == {MaxHostRequests - 1, MaxHostRequests}

NextSync ==
    \/ \E e \in EffectiveConnectionTypes : OnClientCreated(Renderer, TRUE, e)
    \/ \E d \in SyncDescriptors(NextHandle(MaxHostRequests)) : PageSubmits(d)
    \/ \E r \in 1 .. MaxHostRequests : PageRemoves(r)
    \/ \E r \in LastSubmitted, p \in {LOWEST, LOW} :
           ReprioritizeRequest(r, p, 0)
    \/ OnLongQueuedRequestsDispatchTimerFired
    \/ RunTask

SpecSync == InitHost /\ [][NextSync]_vars

----------------------------------------------------------------------------
(* The browser specification: the browser's client, peer-to-peer           *)
(* connections that come and go, and the clock.                            *)

InitP2P == InitWith({DefaultManager}, None)

P2PDescriptors ==
    {Desc(LOWEST, TRUE, "a"), Desc(LOWEST, FALSE, "a"),
     [Desc(LOWEST, TRUE, "a") EXCEPT !.can_throttle = FALSE]}

NextP2P ==
    \/ \E e \in SlowOrFast : OnClientCreated(kBrowserProcessId, TRUE, e)
    \/ \E d \in P2PDescriptors : ScheduleRequest(MaxRequests, kBrowserProcessId, d)
    \/ \E r \in 1 .. MaxRequests : DestroyRequest(r)
    \/ \E n \in 0 .. MaxP2P : OnPeerToPeerConnectionsCountChange(kBrowserProcessId, n)
    \/ OnP2PConnectionsCountEndedTimerFired(kBrowserProcessId)
    \/ OnLongQueuedRequestsDispatchTimerFired
    \/ Tick

SpecP2P == InitP2P /\ [][NextP2P]_vars

----------------------------------------------------------------------------
(* The deferral specification: the general one with requests whose owner   *)
(* asks WillStartRequest and so may be left deferred, and                  *)
(* re-prioritizations that raise a request within the       *)
(* delayable priorities or out of them.                                     *)

DeferDescriptors == {Desc(LOWEST, TRUE, "a")}

NextDefer ==
    \/ \E e \in SlowOrFast : OnClientCreated(Renderer, TRUE, e)
    \/ OnClientDeleted(Renderer)
    \/ \E d \in DeferDescriptors : ScheduleRequest(MaxRequests, Renderer, d)
    \/ \E r \in 1 .. MaxRequests : WillStartRequest(r)
    \/ \E r \in 1 .. MaxRequests : DestroyRequest(r)
    \/ \E r \in 1 .. MaxRequests, p \in {LOW, MEDIUM} :
           ReprioritizeRequest(r, p, 0)
    \/ \E e \in SlowOrFast : OnEffectiveConnectionTypeChanged(Renderer, e)
    \/ OnLongQueuedRequestsDispatchTimerFired
    \/ RunTask

SpecDefer == Init /\ [][NextDefer]_vars

----------------------------------------------------------------------------
(* The orphan specification: the deferral one with requests that may be    *)
(* cancelled, under the sequence's task runner, which runs every task it    *)
(* was posted.                                                             *)

NextOrphan ==
    \/ \E e \in SlowOrFast : OnClientCreated(Renderer, TRUE, e)
    \/ OnClientDeleted(Renderer)
    \/ \E d \in DeferDescriptors : ScheduleRequest(MaxRequests, Renderer, d)
    \/ \E r \in 1 .. MaxRequests : WillStartRequest(r)
    \/ \E r \in 1 .. MaxRequests : CancelRequest(r)
    \/ \E r \in 1 .. MaxRequests : DestroyRequest(r)
    \/ \E r \in 1 .. MaxRequests : ReprioritizeRequest(r, MEDIUM, 0)
    \/ \E e \in SlowOrFast : OnEffectiveConnectionTypeChanged(Renderer, e)
    \/ OnLongQueuedRequestsDispatchTimerFired
    \/ RunTask

SpecOrphan == Init /\ [][NextOrphan]_vars /\ WF_vars(RunTask)

----------------------------------------------------------------------------
(* The estimator specification: a renderer client that is created with or *)
(* without a network-quality estimator, under a table that configures the  *)
(* unknown connection type too, while the clock runs; some of its requests *)
(* carry the ignore-limits load flag.                                      *)

\* a table whose entry for the unknown connection type is tight on every
\* setting
UnknownManager ==
    [DefaultManager EXCEPT
        !.table[EFFECTIVE_CONNECTION_TYPE_UNKNOWN] =
            [max_delayable_requests |-> 1,
             non_delayable_weight |-> [mantissa |-> 1, exponent |-> 0],
             delay_requests_on_multiplexed_connections |-> TRUE,
             max_queuing_time |-> 1,
             http_rtt_multiplier_for_proactive_throttling |-> 1]]

InitEstimator == InitWith({UnknownManager}, 1)

\* the last one carries net::LOAD_IGNORE_LIMITS, which goes with the
\* maximum priority
EstimatorDescriptors ==
    {Desc(LOW, TRUE, "a"), Desc(MEDIUM, TRUE, "a"), Desc(LOW, TRUE, "m"),
     [Desc(HIGHEST, TRUE, "a") EXCEPT !.ignore_limits = TRUE]}

NextEstimator ==
    \/ \E has_estimator \in BOOLEAN, e \in EffectiveConnectionTypes :
           OnClientCreated(Renderer, has_estimator, e)
    \/ OnClientDeleted(Renderer)
    \/ \E d \in EstimatorDescriptors : ScheduleRequest(MaxRequests, Renderer, d)
    \/ \E r \in 1 .. MaxRequests : DestroyRequest(r)
    \/ \E e \in EffectiveConnectionTypes :
           OnEffectiveConnectionTypeChanged(Renderer, e)
    \/ \E manager \in {UnknownManager, DefaultManager} :
           SetResourceSchedulerParamsManagerForTests(manager)
    \/ OnLongQueuedRequestsDispatchTimerFired
    \/ Tick

SpecEstimator == InitEstimator /\ [][NextEstimator]_vars

----------------------------------------------------------------------------
(* The capped specification: a renderer client under a table whose slow    *)
(* entry allows one delayable request in flight and bounds the queuing     *)
(* time, while the clock runs. The last request of the page has a higher   *)
(* delayable priority than the others.                                     *)

CapManager ==
    [DefaultManager EXCEPT
        !.table[EFFECTIVE_CONNECTION_TYPE_2G] =
            [DefaultParams EXCEPT !.max_delayable_requests = 1,
                                  !.max_queuing_time = 1]]

InitCap == InitWith({CapManager}, None)

\* what the r-th handle may ask for
CapDescriptors(r) ==
    IF r = 0 THEN {}
    ELSE IF r = MaxCapRequests THEN {Desc(LOW, TRUE, "a")}
    ELSE {Desc(LOWEST, TRUE, "a"), Desc(LOWEST, TRUE, "b")}

\* the page submits a request once its client is registered
CapSubmits(d) ==
    /\ clients[Renderer].exists
    /\ ScheduleRequest(MaxCapRequests, Renderer, d)

NextCap ==
    \/ \E e \in SlowOrFast : OnClientCreated(Renderer, TRUE, e)
    \/ \E d \in CapDescriptors(NextHandle(MaxCapRequests)) : CapSubmits(d)
    \/ \E r \in 1 .. MaxCapRequests : DestroyRequest(r)
    \/ OnLongQueuedRequestsDispatchTimerFired
    \/ Tick

SpecCap == InitCap /\ [][NextCap]_vars

----------------------------------------------------------------------------
(* The queue-order specification: the page of the capped specification,    *)
(* the clock standing still, whose requests are re-prioritized among the   *)
(* delayable priorities and the intra-priorities.                          *)

\* the priorities and the intra-priority values a re-prioritization carries
FifoPriorities == {LOWEST, LOW}

IntraPriorities == 0 .. 1

NextFifo ==
    \/ \E e \in SlowOrFast : OnClientCreated(Renderer, TRUE, e)
    \/ \E d \in CapDescriptors(NextHandle(MaxCapRequests)) : CapSubmits(d)
    \/ \E r \in 1 .. MaxCapRequests : DestroyRequest(r)
    \/ \E r \in 1 .. MaxCapRequests, p \in FifoPriorities, i \in IntraPriorities :
           ReprioritizeRequest(r, p, i)
    \/ RunTask

SpecFifo == InitCap /\ [][NextFifo]_vars

----------------------------------------------------------------------------
(* The notification specification: the page of the capped specification    *)
(* while the estimator reports connection types and peer-to-peer           *)
(* connection counts.                                                      *)

NextNotify ==
    \/ \E e \in SlowOrFast : OnClientCreated(Renderer, TRUE, e)
    \/ \E d \in CapDescriptors(NextHandle(MaxCapRequests)) : CapSubmits(d)
    \/ \E r \in 1 .. MaxCapRequests : DestroyRequest(r)
    \/ \E e \in SlowOrFast : OnEffectiveConnectionTypeChanged(Renderer, e)
    \/ \E n \in 0 .. MaxP2P : OnPeerToPeerConnectionsCountChange(Renderer, n)
    \/ OnP2PConnectionsCountEndedTimerFired(Renderer)
    \/ OnLongQueuedRequestsDispatchTimerFired
    \/ Tick

SpecNotify == InitCap /\ [][NextNotify]_vars

----------------------------------------------------------------------------
(* The browser-priority specification: the browser's client with requests  *)
(* of the lowest and of the highest priority, while peer-to-peer           *)
(* connections come and go, the connection type changes, the table is      *)
(* replaced by one with another pause window and the clock runs.           *)

\* the default table with a pause window of 2 after the last P2P connection
LongPauseManager ==
    [DefaultManager EXCEPT !.time_to_pause_after_end_of_p2p = 2]

BrowserDescriptors ==
    {Desc(LOWEST, TRUE, "a"), Desc(HIGHEST, TRUE, "a"),
     [Desc(LOWEST, TRUE, "a") EXCEPT !.can_throttle = FALSE]}

NextBrowser ==
    \/ \E e \in SlowOrFast : OnClientCreated(kBrowserProcessId, TRUE, e)
    \/ \E d \in BrowserDescriptors : ScheduleRequest(MaxRequests, kBrowserProcessId, d)
    \/ \E r \in 1 .. MaxRequests : DestroyRequest(r)
    \/ \E n \in 0 .. MaxP2P : OnPeerToPeerConnectionsCountChange(kBrowserProcessId, n)
    \/ \E e \in SlowOrFast : OnEffectiveConnectionTypeChanged(kBrowserProcessId, e)
    \/ OnP2PConnectionsCountEndedTimerFired(kBrowserProcessId)
    \/ OnLongQueuedRequestsDispatchTimerFired
    \/ \E manager \in {DefaultManager, LongPauseManager} :
           SetResourceSchedulerParamsManagerForTests(manager)
    \/ Tick

SpecBrowser == InitP2P /\ [][NextBrowser]_vars

----------------------------------------------------------------------------
(* The identifier specification: clients of several processes and routes,  *)
(* routes with negative ids among them, registered in client_map_ under    *)
(* the ClientId that MakeClientId computes, and requests submitted under    *)
(* such pairs. Child ids are not negative: a left shift of a negative       *)
(* value is undefined.                                                      *)

ChildIds == 0 .. 2 ^ (IdBits - 1) - 1

RouteIds == -(2 ^ (IdBits - 1)) .. 2 ^ (IdBits - 1) - 1

\* the values of ClientId
ClientIdValues == -(2 ^ (2 * IdBits - 1)) .. 2 ^ (2 * IdBits - 1) - 1

InitClientId ==
    /\ requests = [r \in ReqIds |-> NoRequest]
    /\ clients = [id \in ClientIdValues |-> NoClient]
    /\ unowned_requests = {}
    /\ tasks = <<>>
    /\ long_queued_timer = FALSE
    /\ params_manager = TightManager
    /\ now = 0
    /\ http_rtt = None
    /\ obs = NoObs

\* ResourceScheduler::OnClientCreated(child_id, route_id, estimator). Where
\* a client holds the identifier of the pair, registered under a pair that
\* MakeClientId maps to the same identifier, the new Client replaces it (a
\* build with DCHECKs stops at the DCHECK instead, and takes no further
\* step).
OnClientCreatedFor(child_id, route_id, effective_connection_type) ==
    LET client_id == MakeClientId(child_id, route_id)
        client    == NewClient(child_id, TRUE, effective_connection_type)
    IN  Apply(AssignClient(Begin, client_id, client))

\* ResourceScheduler::OnClientDeleted(child_id, route_id)
OnClientDeletedFor(child_id, route_id) ==
    OnClientDeleted(MakeClientId(child_id, route_id))

\* ResourceScheduler::ScheduleRequest(child_id, route_id, is_async, request)
ScheduleRequestFor(child_id, route_id, d) ==
    ScheduleRequest(MaxRequests, MakeClientId(child_id, route_id), d)

NextClientId ==
    \/ \E child_id \in ChildIds, route_id \in RouteIds :
           OnClientCreatedFor(child_id, route_id, EFFECTIVE_CONNECTION_TYPE_4G)
    \/ \E child_id \in ChildIds, route_id \in RouteIds :
           OnClientDeletedFor(child_id, route_id)
    \/ \E child_id \in ChildIds, route_id \in RouteIds :
           ScheduleRequestFor(child_id, route_id, Desc(LOW, TRUE, "a"))
    \/ \E r \in 1 .. MaxRequests : DestroyRequest(r)

SpecClientId == InitClientId /\ [][NextClientId]_vars

----------------------------------------------------------------------------
(* The two-caps specification: the one-host page under a table whose fast *)
(* entry sets the global cap to the per-host limit, so that both caps are  *)
(* reached together.                                                       *)

SixManager ==
    [DefaultManager EXCEPT
        !.table[EFFECTIVE_CONNECTION_TYPE_4G] =
            [DefaultParams EXCEPT !.max_delayable_requests = 6]]

InitTwoCaps == InitWith({SixManager}, None)

SpecTwoCaps == InitTwoCaps /\ [][NextHost]_vars

----------------------------------------------------------------------------
(* The starvation specification: one client, the renderer's or the         *)
(* browser's, whose requests are submitted and never removed or            *)
(* re-prioritized, while the clock advances and the long-queued-requests   *)
(* timer fires. Whatever happens, happens before the clock's last tick, so *)
(* that at the end every wait the params define has passed.                *)

\* the peer-to-peer throttle gives up as soon as the clock has moved on
StarveManager == [HostManager EXCEPT !.max_wait_time_p2p_connections = 0]

InitStarve == InitWith({StarveManager}, 1)

\* the one client of the run registers
OnlyClientCreated(c, effective_connection_type) ==
    /\ \A x \in ClientIds : ~clients[x].exists
    /\ OnClientCreated(c, TRUE, effective_connection_type)

\* a request is submitted to the registered client before the last tick
SubmitsEarly(max, c, d) ==
    /\ now < MaxTime
    /\ clients[c].exists
    /\ ScheduleRequest(max, c, d)

\* the peer-to-peer connection count changes before the last tick
P2PChangesEarly(c, count) ==
    /\ now < MaxTime
    /\ OnPeerToPeerConnectionsCountChange(c, count)

NextStarve ==
    \/ \E c \in ClientIds, e \in EffectiveConnectionTypes : OnlyClientCreated(c, e)
    \/ \E d \in TimedDescriptors(NextHandle(MaxHostRequests)) :
           SubmitsEarly(MaxHostRequests, Renderer, d)
    \/ \E d \in P2PDescriptors : SubmitsEarly(MaxRequests, kBrowserProcessId, d)
    \/ \E n \in 0 .. MaxP2P : P2PChangesEarly(kBrowserProcessId, n)
    \/ OnP2PConnectionsCountEndedTimerFired(kBrowserProcessId)
    \/ OnLongQueuedRequestsDispatchTimerFired
    \/ Tick

SpecStarve == InitStarve /\ [][NextStarve]_vars

----------------------------------------------------------------------------
(* Shorthands for the claims *)

Live(r) == requests[r].state = "live"

Registered(c) == clients[c].exists

\* the handle is in the client's pending queue
Pending(c, r) == Registered(c) /\ IsQueued(State, c, r)

\* the handle is in the client's in-flight set
Flying(c, r) == Registered(c) /\ InFlight(State, c, r)

----------------------------------------------------------------------------
(* Claims *)

\* C1: every handle that was submitted to a registered client, was not
\* handed to unowned_requests_ by the deletion of its client and still
\* exists, is in exactly one of that client's pending queue and in-flight set.
C1_ExactlyOneContainer ==
    \A r \in ReqIds :
        Live(r) /\ r \notin unowned_requests =>
            /\ Registered(requests[r].client_id)
            /\ Pending(requests[r].client_id, r) # Flying(requests[r].client_id, r)

\* C2: a live handle has the InFlight attribute bit exactly when it is in the
\* in-flight set of some client of client_map_.
C2_InFlightBit ==
    \A r \in ReqIds :
        Live(r) =>
            (RequestAttributesAreSet(requests[r].attributes, kAttributeInFlight)
                 <=> \E c \in DOMAIN clients : Flying(c, r))

\* C3: a Client is only handed handles it holds: Client::ReprioritizeRequest
\* and Client::RemoveRequest never run on a handle that is in neither the
\* client's pending queue nor its in-flight set.
C3_OnlyOwnHandles == ~obs.foreign

\* the first n handles were submitted to the renderer's client, which has the
\* default params, as asynchronous HTTP requests of priority p to host "a";
\* none was removed and no other handle exists
Batch(n, p) ==
    /\ Registered(Renderer)
    /\ clients[Renderer].params_for_network_quality = DefaultParams
    /\ \A r \in ReqIds :
           IF r <= n
           THEN /\ Live(r) /\ requests[r].owned
                /\ requests[r].priority = p /\ requests[r].host = "a"
                /\ requests[r].is_async /\ requests[r].is_http
           ELSE requests[r].state = "none"

\* of 8 such requests the first 6 are in flight and the 7th and 8th pending,
\* and removing any in-flight one moves the 7th, and only it, in flight
EightToOneHost(p) ==
    Batch(8, p) =>
        /\ clients[Renderer].in_flight_requests = 1 .. 6
        /\ clients[Renderer].pending_requests = <<7, 8>>
        /\ \A r \in 1 .. 6 :
               LET s == SchedulerRemoveRequest(State, r)
               IN  /\ s.clients[Renderer].in_flight_requests = (1 .. 7) \ {r}
                   /\ s.clients[Renderer].pending_requests = <<8>>

\* C4, as the code has it: with 8 LOW-priority (below MEDIUM, so delayable)
\* asynchronous HTTP requests to one host without priority support, on a
\* renderer client with default params, the first 6 are in flight and the 7th
\* and 8th pending; removing one in-flight request moves exactly the 7th,
\* the earlier-submitted of the two, in flight.
C4_EightLowRequests == EightToOneHost(LOW)

\* one of the first 6 was removed, the 7th took its place, the 8th waits
C4_Witness ==
    \E r \in 1 .. 6 :
        /\ requests[r].state = "destroyed"
        /\ \A x \in (1 .. 8) \ {r} : Live(x) /\ requests[x].priority = LOW
        /\ Registered(Renderer)
        /\ clients[Renderer].params_for_network_quality = DefaultParams
        /\ clients[Renderer].in_flight_requests = (1 .. 7) \ {r}
        /\ clients[Renderer].pending_requests = <<8>>

\* C4 as claimed: the same of 8 MEDIUM-priority requests.
C4_EightMediumRequests == EightToOneHost(MEDIUM)

\* the client's in-flight delayable requests to host h
DelayableInFlight(c, h) ==
    {x \in clients[c].in_flight_requests :
         /\ requests[x].host = h
         /\ RequestAttributesAreSet(requests[x].attributes, kAttributeDelayable)}

\* C5: at most 6 delayable requests of a renderer client to one
\* host without priority support are in flight at any time, a 7th only after
\* one of them was removed.
C5_SixPerHost ==
    \A c \in ClientIds, h \in Hosts :
        Registered(c) /\ ~clients[c].is_browser_client /\ ~SupportsRequestPriority(h) =>
            Cardinality(DelayableInFlight(c, h))
                <= kMaxNumDelayableRequestsPerHostPerClient

\* a LoadAnyStartablePendingRequests task of client c waits in the queue
TaskPosted(c) ==
    \E i \in 1 .. Len(tasks) : tasks[i].kind = "LoadAny" /\ tasks[i].client = c

\* the state a Reconsider pass of client c leaves when run in this state
PassFrom(c) == LoadAnyStartablePendingRequests(State, c)

\* the handles that ResourceScheduler::RemoveRequest hands to client c and
\* that are not in its pending queue: Client::RemoveRequest erases them from
\* the in-flight set, whether or not they are in it, and runs a pass
ErasedByRemoval(c) ==
    {r \in ReqIds : /\ Live(r) /\ r \notin unowned_requests
                    /\ requests[r].client_id = c
                    /\ ~IsQueued(State, c, r)}

\* the states in which a pass of client c can start from here: this one, when
\* the long-queued-requests timer runs or a task is posted; the one
\* RemoveRequest makes of it by EraseInFlightRequest; with an estimator, the
\* ones a change of the connection type and of the P2P connections count
\* make of it; and the one the P2P-ended timer leaves when it is due
PassStarts(c) ==
    (IF long_queued_timer \/ TaskPosted(c) THEN {State} ELSE {})
    \cup {EraseInFlightRequest(State, c, r) : r \in ErasedByRemoval(c)}
    \cup (IF clients[c].has_network_quality_estimator
          THEN {SetEffectiveConnectionType(State, c, e) :
                    e \in EffectiveConnectionTypes
                             \ {clients[c].effective_connection_type}}
               \cup {SetPeerToPeerConnectionsCount(State, c, n) :
                         n \in (0 .. MaxP2P) \ {clients[c].p2p_connections_count}}
          ELSE {})
    \cup (IF EndedTimerIsDue(State, c)
          THEN {[State EXCEPT !.clients[c].p2p_connections_count_ended_timer = FALSE]}
          ELSE {})

\* a and b are pending on c in state s, a with the higher priority
PendingPair(s, c, a, b) ==
    /\ IsQueued(s, c, a) /\ IsQueued(s, c, b)
    /\ s.requests[a].priority > s.requests[b].priority

\* ShouldStartRequest answers START_REQUEST for the pending handle in state s
Admissible(s, c, r) == ShouldStartRequest(s, c, r) = START_REQUEST

\* the in-flight requests of c to host h in state s
HostLoad(s, c, h) ==
    Cardinality({x \in s.clients[c].in_flight_requests : s.requests[x].host = h})

\* C6, as the code has it: of two requests A and B pending on one client,
\* priority(A) > priority(B), both of which ShouldStartRequest would start in
\* the state a pass starts in, the pass never starts B and leaves A pending
\* unless the requests it started before reaching A filled A's host to the
\* per-host limit.
C6_HigherFirstUnlessHostFilled ==
    \A c \in ClientIds : (Registered(c) /\ clients[c].pending_requests # <<>>) =>
        \A s0 \in PassStarts(c) :
            LET s == LoadAnyStartablePendingRequests(s0, c)
            IN  \A a, b \in ReqIds :
                    (PendingPair(s0, c, a, b) /\ Admissible(s0, c, a)
                        /\ Admissible(s0, c, b)) =>
                        (InFlight(s, c, b) /\ IsQueued(s, c, a) =>
                            HostLoad(s, c, requests[a].host)
                                >= kMaxNumDelayableRequestsPerHostPerClient)

\* two admissible pending requests of different priority, both of which the
\* pass the timer can start here starts
C6_Witness ==
    \E c \in ClientIds, a, b \in ReqIds :
        /\ Registered(c) /\ long_queued_timer
        /\ PendingPair(State, c, a, b)
        /\ Admissible(State, c, a) /\ Admissible(State, c, b)
        /\ InFlight(PassFrom(c), c, a) /\ InFlight(PassFrom(c), c, b)

\* C6 as claimed: of two requests A and B pending on one client,
\* priority(A) > priority(B), both of which ShouldStartRequest would start in
\* the state a pass starts in, the pass never starts B and leaves A pending.
C6_HigherFirst ==
    \A c \in ClientIds : Registered(c) =>
        \A s0 \in PassStarts(c) : \A a, b \in ReqIds :
            PendingPair(s0, c, a, b) /\ Admissible(s0, c, a) /\ Admissible(s0, c, b) =>
                LET s == LoadAnyStartablePendingRequests(s0, c)
                IN  InFlight(s, c, b) => InFlight(s, c, a)

\* C7, as the code has it: a pass starts a lower-priority pending request
\* only if every pending request of strictly higher priority is started by
\* it too, or is passed over because its host is at the per-host limit (the
\* keep-searching answer, which does not end the walk).
C7_LowerOnlyAfterHigherOrPassedOver ==
    \A c \in ClientIds : (Registered(c) /\ clients[c].pending_requests # <<>>) =>
        \A s0 \in PassStarts(c) :
            LET s == LoadAnyStartablePendingRequests(s0, c)
            IN  \A a, b \in ReqIds :
                    PendingPair(s0, c, a, b) =>
                        (InFlight(s, c, b) =>
                            \/ InFlight(s, c, a)
                            \/ ShouldStartRequest(s, c, a)
                                   = DO_NOT_START_REQUEST_AND_KEEP_SEARCHING
                               /\ HostLoad(s, c, requests[a].host)
                                      >= kMaxNumDelayableRequestsPerHostPerClient)

\* a pass, which the timer can start here, that starts the lower-priority
\* request and passes over the higher one, whose host is full
C7_Witness ==
    \E c \in ClientIds, a, b \in ReqIds :
        /\ Registered(c) /\ long_queued_timer
        /\ PendingPair(State, c, a, b)
        /\ InFlight(PassFrom(c), c, b) /\ IsQueued(PassFrom(c), c, a)
        /\ ShouldStartRequest(PassFrom(c), c, a)
               = DO_NOT_START_REQUEST_AND_KEEP_SEARCHING

\* C7 as claimed: a pass starts a lower-priority pending request only if
\* every pending request of strictly higher priority is started by it too.
C7_LowerOnlyAfterHigher ==
    \A c \in ClientIds : Registered(c) =>
        \A s0 \in PassStarts(c) : \A a, b \in ReqIds :
            PendingPair(s0, c, a, b) =>
                LET s == LoadAnyStartablePendingRequests(s0, c)
                IN  InFlight(s, c, b) => InFlight(s, c, a)

\* e was submitted before l to the same client, with the same priority and
\* intra-priority, and both meet the same caps: same host, both asynchronous
\* HTTP requests
SameKeyPair(e, l) ==
    /\ e < l /\ Live(e) /\ Live(l)
    /\ requests[e].owned /\ requests[l].owned
    /\ requests[e].client_id = requests[l].client_id
    /\ requests[e].priority = requests[l].priority
    /\ requests[e].intra_priority = requests[l].intra_priority
    /\ requests[e].host = requests[l].host
    /\ requests[e].is_async /\ requests[l].is_async
    /\ requests[e].is_http /\ requests[l].is_http

\* C8, as the code has it: of two such requests, neither re-prioritized
\* since (the queue ids handed out at submission still stand), no pass
\* starts the later-submitted one and leaves the earlier one pending.
\* (ScheduleRequest itself does not look at the queue: it starts a request
\* that may start, whatever is pending.)
C8_PassKeepsSubmissionOrder ==
    \A e, l \in ReqIds :
        (/\ SameKeyPair(e, l)
         /\ Pending(requests[e].client_id, e) /\ Pending(requests[e].client_id, l)
         /\ requests[e].fifo_ordering < requests[l].fifo_ordering) =>
            LET c == requests[e].client_id
            IN  \A s0 \in PassStarts(c) :
                    LET s == LoadAnyStartablePendingRequests(s0, c)
                    IN  ~(InFlight(s, c, l) /\ IsQueued(s, c, e))

\* a pass, which the timer can start here, that has room for one of the two
\* and starts the earlier-submitted
C8_Witness ==
    \E e, l \in ReqIds :
        /\ SameKeyPair(e, l)
        /\ Pending(requests[e].client_id, e) /\ Pending(requests[e].client_id, l)
        /\ long_queued_timer
        /\ InFlight(PassFrom(requests[e].client_id), requests[e].client_id, e)
        /\ IsQueued(PassFrom(requests[e].client_id), requests[e].client_id, l)

\* C8 as claimed: of two such requests the later-submitted one is never in
\* flight while the earlier-submitted one is pending.
C8_SubmissionOrder ==
    \A e, l \in ReqIds :
        SameKeyPair(e, l) =>
            ~(Pending(requests[e].client_id, e) /\ Flying(requests[e].client_id, l))

\* C9: while a request is pending on a renderer client with a priority of
\* MEDIUM or higher, to which only a re-prioritization can have raised it, a
\* re-evaluation task of the client is posted, and a pass run in the current
\* state, as that task will, puts the request in flight.
C9_PromotedStartsWhenTaskRuns ==
    \A c \in ClientIds, r \in ReqIds :
        /\ Pending(c, r)
        /\ ~clients[c].is_browser_client
        /\ requests[r].priority >= kDelayablePriorityThreshold
        => TaskPosted(c) /\ InFlight(PassFrom(c), c, r)

\* a promoted request is pending, behind a request in flight that keeps the
\* delayable ones waiting, and the posted task is next to run
C9_Witness ==
    \E c \in ClientIds, r \in ReqIds :
        /\ Pending(c, r)
        /\ ~clients[c].is_browser_client
        /\ requests[r].priority >= kDelayablePriorityThreshold
        /\ clients[c].in_flight_requests # {}
        /\ tasks # <<>> /\ Head(tasks).kind = "LoadAny" /\ Head(tasks).client = c

\* C10: every handle in a pending queue, of a renderer or of the browser
\* client, is asynchronous.
C10_NoSynchronousPending ==
    \A c \in ClientIds, r \in ReqIds : Pending(c, r) => requests[r].is_async

\* the handles of client c's pending queue in state s that sort before x
AheadOf(s, c, x) ==
    {s.clients[c].pending_requests[i] :
         i \in 1 .. IndexOf(s.clients[c].pending_requests, x) - 1}

\* C11, as the code has it: removing an in-flight handle of a registered
\* client runs a pass on that client as part of the removal, after which no
\* pending request that the walk reaches (none ahead of it answers
\* stop-searching) is admissible; removing a pending handle only erases it
\* from the queue: nothing is started, and no pass runs.
C11_InFlightRemovalRunsPass ==
    \A c \in ClientIds, r \in ReqIds :
        LET s == SchedulerRemoveRequest(State, r)
        IN  /\ Flying(c, r) /\ r \notin unowned_requests =>
                \A x \in ReqIds :
                    IsQueued(s, c, x) /\ Admissible(s, c, x) =>
                        \E y \in AheadOf(s, c, x) :
                            ShouldStartRequest(s, c, y)
                                = DO_NOT_START_REQUEST_AND_STOP_SEARCHING
            /\ Pending(c, r) /\ r \notin unowned_requests =>
                /\ s.clients[c].in_flight_requests = clients[c].in_flight_requests
                /\ s.clients[c].pending_requests =
                       SelectSeq(clients[c].pending_requests, LAMBDA x : x # r)

\* removing one in-flight handle here starts a pending one, and removing a
\* pending handle here leaves an admissible one pending
C11_Witness ==
    \E c \in ClientIds, f, p, x \in ReqIds :
        /\ Flying(c, f) /\ Pending(c, p) /\ Pending(c, x) /\ p # x
        /\ \E y \in ReqIds : /\ Pending(c, y)
                             /\ InFlight(SchedulerRemoveRequest(State, f), c, y)
        /\ Admissible(SchedulerRemoveRequest(State, p), c, x)

\* C11 as claimed: after the removal of any handle of a registered client,
\* pending or in flight, no pending request of the client is admissible.
C11_AnyRemovalRunsPass ==
    \A c \in ClientIds, r \in ReqIds :
        (Flying(c, r) \/ Pending(c, r)) /\ r \notin unowned_requests =>
            LET s == SchedulerRemoveRequest(State, r)
            IN  \A x \in ReqIds : IsQueued(s, c, x) => ~Admissible(s, c, x)

\* the LoadAnyStartablePendingRequests tasks of client c posted in state s
LoadTasks(s, c) ==
    {i \in 1 .. Len(s.tasks) : s.tasks[i].kind = "LoadAny" /\ s.tasks[i].client = c}

\* net::RequestPriority, every value
Priorities == THROTTLED .. HIGHEST

\* C12, as the code has it: between two passes of a client at most one
\* re-evaluation task is posted: once a trigger has posted one, and until a
\* pass of the client runs (num_skipped_scans_due_to_scheduled_start_ > 0),
\* that task is still posted and no re-prioritization posts another.
C12_OneTaskBetweenPasses ==
    \A c \in ClientIds :
        Registered(c) /\ clients[c].num_skipped_scans_due_to_scheduled_start > 0 =>
            /\ LoadTasks(State, c) # {}
            /\ \A r \in ReqIds, p \in Priorities :
                   Live(r) =>
                       LoadTasks(SchedulerReprioritizeRequest(State, r, p, 0), c)
                           = LoadTasks(State, c)

\* two priority-raising re-prioritizations of a pending request, one task
C12_Witness ==
    \E c \in ClientIds, r \in ReqIds :
        /\ Pending(c, r)
        /\ clients[c].num_skipped_scans_due_to_scheduled_start >= 2
        /\ Cardinality(LoadTasks(State, c)) = 1

\* C12 as claimed: at most one re-evaluation task of a client is posted and
\* not yet run at any time.
C12_OneTaskOutstanding ==
    \A c \in ClientIds : Cardinality(LoadTasks(State, c)) <= 1

\* a Start task of handle r waits in the sequence's queue
StartPosted(r) ==
    \E i \in 1 .. Len(tasks) : tasks[i].kind = "Start" /\ tasks[i].req = r

\* the handle is in the in-flight set of some Client of client_map_ or in
\* unowned_requests_
Admitted(r) ==
    r \in unowned_requests \/ \E c \in DOMAIN clients : Flying(c, r)

\* C13: a resume callback runs only in a step that takes a posted Start task
\* of that handle from the head of the sequence's queue, so in no pass and in
\* no Remove, Reprioritize, timer, signal or client-deletion call; and every
\* deferred handle that was admitted has such a task posted.
C13_ResumeOnlyInPostedTask ==
    /\ [](\A r \in ReqIds :
              Live(r) /\ requests[r].deferred /\ ~requests[r].cancelled
                  /\ Admitted(r) => StartPosted(r))
    /\ [][obs'.resumed # {} =>
              /\ tasks # <<>> /\ Head(tasks).kind = "Start"
              /\ obs'.resumed = {Head(tasks).req}
              /\ tasks' = Tail(tasks)]_vars

\* the resume callback of a handle in flight on the renderer's client has
\* just run
C13_Witness ==
    \E r \in ReqIds : r \in obs.resumed /\ Flying(Renderer, r)

\* the state the long-queued-requests timer leaves when it fires here
Sweep == SchedulerOnLongQueuedRequestsDispatchTimerFired(State)

\* the client's wait is bounded: the browser's peer-to-peer throttle ends
\* with time, and so does a renderer's queuing if its params define a
\* max_queuing_time
WaitIsBounded(c) ==
    \/ clients[c].is_browser_client
    \/ clients[c].params_for_network_quality.max_queuing_time # None

\* C14, as the code has it: while any request is pending the timer is
\* running, and once time has advanced past every wait the params define, the
\* timer's sweep moves to in-flight every request pending on the browser's
\* client or on a renderer's client whose params define a max_queuing_time,
\* with no removal, re-prioritization, submission or network signal needed.
C14_SweepStartsWhenWaitIsBounded ==
    /\ PendingRequestFound(State) => long_queued_timer
    /\ now = MaxTime =>
           \A c \in ClientIds, r \in ReqIds :
               Pending(c, r) /\ WaitIsBounded(c) => InFlight(Sweep, c, r)

\* at the end of the clock the sweep starts a renderer's request that the
\* per-host limit would hold back
C14_Witness ==
    /\ now = MaxTime /\ long_queued_timer
    /\ \E r \in ReqIds :
           /\ Pending(Renderer, r) /\ WaitIsBounded(Renderer)
           /\ InFlight(Sweep, Renderer, r)
           /\ HostLoad(State, Renderer, requests[r].host)
                  >= kMaxNumDelayableRequestsPerHostPerClient

\* C14 as claimed: once time has advanced, the timer's sweep moves every
\* request pending on a registered client to in-flight.
C14_SweepStartsEveryPending ==
    now = MaxTime =>
        \A c \in ClientIds, r \in ReqIds : Pending(c, r) => InFlight(Sweep, c, r)

\* the requests in flight on c that were submitted after request l and are
\* delayable, by their attributes or, the same here, by their priority
DelayableInFlightSince(c, l) ==
    {x \in clients[c].in_flight_requests :
         /\ x > l
         /\ requests[x].priority < kDelayablePriorityThreshold
         /\ RequestAttributesAreSet(requests[x].attributes, kAttributeDelayable)}

\* C15: while a layout-blocking request is in flight on a client, at most 1
\* of the delayable requests submitted since is in flight.
C15_LayoutBlockingExclusivity ==
    \A c \in ClientIds, l \in ReqIds :
        Flying(c, l) /\ requests[l].layout_blocking =>
            Cardinality(DelayableInFlightSince(c, l))
                <= kMaxNumDelayableWhileLayoutBlockingPerClient

\* every request a caller may submit: any priority, synchronous or not, to
\* any host
AnyDescriptor == {Desc(p, a, h) : p \in Priorities, a \in BOOLEAN, h \in Hosts}

\* C16: a request submitted under a ClientId with no registered client,
\* whatever it asks for and whatever the registered clients hold, is on
\* return in the unowned pool and ready, without having been deferred to a
\* task; no client's pending queue, in-flight set or counter has changed,
\* and the timer is as it was.
C16_UnownedStartsAtOnce ==
    \A c \in ClientIds, d \in AnyDescriptor :
        ~Registered(c) /\ NextHandle(MaxRequests) # 0 =>
            LET r == NextHandle(MaxRequests)
                s == SchedulerScheduleRequest(Begin, c, r, d)
            IN  /\ r \in s.unowned
                /\ s.requests[r].ready /\ ~s.requests[r].deferred
                /\ s.requests[r].attributes = kAttributeNone
                /\ s.clients = clients
                /\ s.tasks = tasks /\ s.timer = long_queued_timer
                /\ s.obs = NoObs

\* a request is unowned and ready under a ClientId that has no client, and
\* was never queued
C16_Witness ==
    \E r \in ReqIds :
        /\ Live(r) /\ r \in unowned_requests /\ requests[r].ready
        /\ ~requests[r].owned /\ requests[r].fifo_ordering = 0
        /\ ~Registered(requests[r].client_id)
        /\ obs = NoObs

\* C17: removing a live handle that is in no client's pending queue and in
\* no client's in-flight set (an unowned one, or one whose Client is gone,
\* whether or not a client is registered under its ClientId by now) takes it
\* out of the unowned pool if it is there
\* and changes nothing else: no client's queue, set or counter, no posted
\* task, not the timer, and Client::RemoveRequest is not called.
C17_ForeignRemovalIsNoOp ==
    \A r \in ReqIds :
        Live(r) /\ (\A c \in DOMAIN clients : ~Pending(c, r) /\ ~Flying(c, r)) =>
            LET s == SchedulerRemoveRequest(Begin, r)
            IN  /\ s.clients = clients
                /\ s.unowned = unowned_requests \ {r}
                /\ s.tasks = tasks /\ s.timer = long_queued_timer
                /\ s.requests = requests
                /\ s.obs = NoObs

\* the handles in the pending queue of client c
PendingOf(c) == {r \in ReqIds : Pending(c, r)}

\* the handles in the in-flight set of client c
InFlightOf(c) == clients[c].in_flight_requests

\* C18: OnClientDeleted on a registered client adds exactly the client's
\* pending and in-flight handles to the unowned pool, each with no attribute
\* bit set; it runs no resume callback: a pending handle that was deferred
\* stays deferred with its start posted as a task, one that was never
\* deferred becomes ready; no other handle's record changes beyond the
\* loss of its owner, no other client changes, and the deleted client's
\* queue, set and counters are gone.
C18_DeletionDrainsToUnowned ==
    \A c \in ClientIds : clients[c].exists =>
        LET s == SchedulerOnClientDeleted(Begin, c)
            moved == PendingOf(c) \cup InFlightOf(c)
        IN  /\ s.unowned = unowned_requests \cup moved
            /\ \A r \in moved : s.requests[r].attributes = kAttributeNone
            /\ s.obs.resumed = {}
            /\ \A r \in PendingOf(c) : ~requests[r].cancelled =>
                   IF requests[r].deferred
                   THEN /\ s.requests[r].deferred /\ ~s.requests[r].ready
                        /\ \E i \in 1..Len(s.tasks) :
                               s.tasks[i] = [kind |-> "Start", req |-> r,
                                             client |-> 0]
                   ELSE s.requests[r].ready
            /\ \A r \in ReqIds \ moved :
                   s.requests[r] = IF Live(r) /\ requests[r].client_id = c
                                   THEN [requests[r] EXCEPT !.owned = FALSE]
                                   ELSE requests[r]
            /\ s.clients[c] = NoClient
            /\ \A d \in ClientIds \ {c} : s.clients[d] = clients[d]

\* after a deletion: a handle that was pending and deferred is unowned, still
\* deferred, with its start posted, next to a ready unowned handle
C18_Witness ==
    \E r, x \in ReqIds :
        /\ r # x /\ {r, x} \subseteq unowned_requests
        /\ Live(r) /\ Live(x)
        /\ requests[r].deferred /\ StartPosted(r) /\ ~requests[r].ready
        /\ requests[x].ready
        /\ requests[r].attributes = kAttributeNone
        /\ ~clients[requests[r].client_id].exists

\* the handle was pending and deferred when its client was deleted, and
\* still exists
Drained(r) == Live(r) /\ requests[r].drained

\* the handle's resume callback has not run and may still run
AwaitsResume(r) ==
    Drained(r) /\ requests[r].deferred /\ ~requests[r].cancelled

\* C19: a handle that was pending and deferred when its client was deleted
\* stays in the unowned pool, in no client's queue or in-flight set, with
\* its start posted as a task, until its resume callback runs, it is
\* destroyed or its request is cancelled, and one of the three happens;
\* whatever the scheduler is asked afterwards (a timer sweep, a network
\* signal, a re-prioritization, also with a client registered again under
\* its ClientId), the handle's deferred and ready flags change only in the
\* step that runs that posted task. (The handles of the orphan specification
\* are 1 .. MaxRequests.)
C19_OrphanIsResumedAndLeftAlone ==
    /\ [](\A r \in ReqIds : Drained(r) =>
              /\ r \in unowned_requests
              /\ \A c \in ClientIds : ~Pending(c, r) /\ ~Flying(c, r)
              /\ AwaitsResume(r) => StartPosted(r))
    /\ \A r \in 1 .. MaxRequests :
           AwaitsResume(r) ~> (~Live(r) \/ requests[r].cancelled
                                  \/ (r \in obs.resumed /\ requests[r].ready))
    /\ [][\A r \in ReqIds :
              (/\ Drained(r) /\ requests'[r].state = "live"
               /\ \/ requests'[r].deferred # requests[r].deferred
                  \/ requests'[r].ready # requests[r].ready)
              => /\ tasks # <<>> /\ tasks' = Tail(tasks)
                 /\ Head(tasks) = [kind |-> "Start", req |-> r, client |-> 0]
                 /\ r \in obs'.resumed]_vars

\* the resume callback of a handle that was pending and deferred at its
\* client's deletion has just run, with a client registered again under its
\* ClientId
C19_Witness ==
    \E r \in ReqIds :
        /\ Drained(r) /\ requests[r].will_start_called
        /\ r \in obs.resumed /\ requests[r].ready /\ ~requests[r].deferred
        /\ Registered(requests[r].client_id)

\* C20: whenever the timer is running, some registered client's
\* pending queue is non-empty.
C20_TimerOnlyWithPending ==
    long_queued_timer => PendingRequestFound(State)

\* C21: a client created with no network-quality estimator has the params
\* of the table's entry for the unknown connection type, and no evaluation of
\* ShouldStartRequest reads from the absent estimator.
C21_NoEstimatorHasParamsForUnknown ==
    /\ ~obs.crashed
    /\ \A c \in ClientIds :
           Registered(c) /\ ~clients[c].has_network_quality_estimator =>
               clients[c].params_for_network_quality =
                   GetParamsForEffectiveConnectionType(
                       EFFECTIVE_CONNECTION_TYPE_UNKNOWN)

\* C22, as the code has it: ReprioritizeRequest on a request that carries
\* the ignore-limits load flag returns at once: the request keeps its
\* priority and intra-priority, and no client's pending queue, in-flight set
\* or count, no posted task and nothing else changes.
C22_IgnoreLimitsReprioritizeDoesNothing ==
    \A r \in ReqIds, p \in Priorities, i \in IntraPriorities :
        Live(r) /\ requests[r].ignore_limits =>
            SchedulerReprioritizeRequest(Begin, r, p, i) = Begin

\* a request with the ignore-limits flag is in flight on a registered client
\* next to a pending request
C22_Witness ==
    \E r, x \in ReqIds :
        /\ Live(r) /\ requests[r].ignore_limits
        /\ Flying(requests[r].client_id, r)
        /\ Pending(requests[r].client_id, x)

\* C22 as claimed: ReprioritizeRequest on a request that carries the
\* ignore-limits load flag sets the request's priority to the new priority.
C22_IgnoreLimitsReprioritizeSetsPriority ==
    \A r \in ReqIds, p \in Priorities :
        Live(r) /\ requests[r].ignore_limits =>
            SchedulerReprioritizeRequest(
                Begin, r, p, requests[r].intra_priority).requests[r].priority = p

\* the request has been queued for the client's max_queuing_time or longer
WaitedOut(s, c, r) ==
    LET max_queuing_time == s.clients[c].params_for_network_quality.max_queuing_time
    IN  /\ max_queuing_time # None
        /\ now - s.requests[r].creation_time >= max_queuing_time

\* C23, as the code has it: in a pass on a renderer client whose params
\* define max_queuing_time, every pending request that has waited that long
\* is moved to in-flight, unless the walk ends before it: a request ahead of
\* it in the queue, which has not waited that long, is refused with the
\* stop-searching answer (the global cap or the anticipation of a
\* non-delayable request).
C23_WaitedOutStartsWhenReached ==
    \A c \in ClientIds :
        (Registered(c) /\ ~clients[c].is_browser_client
            /\ clients[c].pending_requests # <<>>) =>
            \A s0 \in PassStarts(c) :
                LET s == LoadAnyStartablePendingRequests(s0, c)
                IN  \A r \in ReqIds :
                        (IsQueued(s0, c, r) /\ WaitedOut(s0, c, r)) =>
                            \/ InFlight(s, c, r)
                            \/ \E y \in AheadOf(s, c, r) :
                                   /\ ~WaitedOut(s, c, y)
                                   /\ ShouldStartRequest(s, c, y)
                                          = DO_NOT_START_REQUEST_AND_STOP_SEARCHING

\* the timer's pass here starts a request that has waited out and that the
\* global cap would refuse
C23_Witness ==
    \E c \in ClientIds, r \in ReqIds :
        /\ Registered(c) /\ ~clients[c].is_browser_client /\ long_queued_timer
        /\ Pending(c, r) /\ WaitedOut(State, c, r)
        /\ clients[c].in_flight_delayable_count
               >= clients[c].params_for_network_quality.max_delayable_requests
        /\ InFlight(PassFrom(c), c, r)

\* C23 as claimed: every pending request that has waited max_queuing_time is
\* moved to in-flight by the pass, whatever is pending ahead of it.
C23_WaitedOutStarts ==
    \A c \in ClientIds :
        (Registered(c) /\ ~clients[c].is_browser_client) =>
            \A s0 \in PassStarts(c) :
                LET s == LoadAnyStartablePendingRequests(s0, c)
                IN  \A r \in ReqIds :
                        (IsQueued(s0, c, r) /\ WaitedOut(s0, c, r)) =>
                            InFlight(s, c, r)

\* the global delayable cap of ShouldStartRequest is reached (size_t
\* arithmetic, as in the function)
GlobalCapReached(s, c) ==
    LET cl == s.clients[c]
        pm == cl.params_for_network_quality
        non_delayable == (Cardinality(cl.in_flight_requests)
                              - cl.in_flight_delayable_count) % SizeMod
    IN  (cl.in_flight_delayable_count
             + WeightedCount(pm.non_delayable_weight, non_delayable)) % SizeMod
            >= pm.max_delayable_requests

\* the pending request is one the caps apply to, and its host has 6 or more
\* requests in flight
AtFullHost(c, r) ==
    /\ Registered(c) /\ ~clients[c].is_browser_client /\ Pending(c, r)
    /\ requests[r].is_async /\ requests[r].is_http
    /\ ~WaitedOut(State, c, r)
    /\ ~SupportsRequestPriority(requests[r].host)
    /\ RequestAttributesAreSet(requests[r].attributes, kAttributeDelayable)
    /\ HostLoad(State, c, requests[r].host)
           >= kMaxNumDelayableRequestsPerHostPerClient

\* C24, as the code has it: ShouldStartRequest tests the global delayable
\* cap before the per-host cap: for a pending delayable request whose host
\* has 6 or more requests in flight the answer is stop-searching when the
\* global cap is reached too, and a pass that meets the request then ends
\* there; the answer is keep-searching only when the global cap is not
\* reached.
C24_GlobalCapBeforeHostCap ==
    \A c \in ClientIds, r \in ReqIds :
        AtFullHost(c, r) =>
            IF GlobalCapReached(State, c)
            THEN /\ ShouldStartRequest(State, c, r)
                        = DO_NOT_START_REQUEST_AND_STOP_SEARCHING
                 /\ r = Head(clients[c].pending_requests) =>
                        PassFrom(c).clients[c].in_flight_requests
                            = clients[c].in_flight_requests
            ELSE ShouldStartRequest(State, c, r)
                     = DO_NOT_START_REQUEST_AND_KEEP_SEARCHING

\* six requests to one host are in flight, which is the global cap too, and
\* a seventh to that host is pending
C24_Witness ==
    \E c \in ClientIds, r \in ReqIds :
        /\ AtFullHost(c, r) /\ GlobalCapReached(State, c)
        /\ clients[c].in_flight_delayable_count = 6

\* C24 as claimed: for a delayable request whose host has 6 or more requests
\* in flight the answer is keep-searching, whether or not the global cap is
\* reached.
C24_HostCapBeforeGlobalCap ==
    \A c \in ClientIds, r \in ReqIds :
        AtFullHost(c, r) =>
            ShouldStartRequest(State, c, r)
                = DO_NOT_START_REQUEST_AND_KEEP_SEARCHING

\* C25: the number of in-flight delayable requests of a client
\* never exceeds max_delayable_requests.
C25_NeverMoreThanMaxDelayable ==
    \A c \in ClientIds :
        Registered(c) =>
            clients[c].in_flight_delayable_count
                <= clients[c].params_for_network_quality.max_delayable_requests

\* C26: for each client and each host without priority support,
\* at most 6 delayable requests to that host are in flight.
C26_NeverMoreThanSixPerHost ==
    \A c \in ClientIds, h \in Hosts :
        Registered(c) /\ ~SupportsRequestPriority(h) =>
            Cardinality(DelayableInFlight(c, h)) <= 6

\* C27: removing a handle that is pending on a registered client erases it
\* from that client's pending queue and changes nothing else: the other
\* pending handles keep their order, the in-flight set and every running
\* count, the other clients, the unowned pool, the posted tasks, the timer
\* and every request stay as they are, and no pending request is started.
C27_PendingRemovalOnlyErases ==
    \A c \in ClientIds, r \in ReqIds :
        Pending(c, r) =>
            SchedulerRemoveRequest(Begin, r) =
                [Begin EXCEPT !.clients[c].pending_requests =
                                  SelectSeq(@, LAMBDA x : x # r)]

\* a pending handle whose removal leaves a queue that a pass would change,
\* with requests in flight beside it
C27_Witness ==
    \E c \in ClientIds, r \in ReqIds :
        /\ Pending(c, r)
        /\ clients[c].in_flight_requests # {}
        /\ Len(clients[c].pending_requests) > 1
        /\ LET s == SchedulerRemoveRequest(Begin, r)
           IN  LoadAnyStartablePendingRequests(s, c) # s

\* the handles pending on c in state s that have the key of handle r
SameKeyAs(s, c, r) ==
    {x \in ReqIds \ {r} :
         /\ IsQueued(s, c, x)
         /\ s.requests[x].priority = s.requests[r].priority
         /\ s.requests[x].intra_priority = s.requests[r].intra_priority}

\* C28: every insertion into a pending queue hands the request a fifo
\* ordering id greater than every id the queue has handed out before, so a
\* pending handle re-prioritized to another (priority, intra_priority) key,
\* be it only another intra_priority, stands after every other pending
\* handle of its new key; a re-prioritization to the key the handle has
\* changes nothing, neither its position nor its fifo ordering id.
C28_ReinsertedGoesLast ==
    /\ [](\A c \in ClientIds, r \in ReqIds :
              Pending(c, r) =>
                  /\ requests[r].fifo_ordering \in 1 .. clients[c].fifo_ordering_ids
                  /\ \A p \in Priorities, i \in IntraPriorities :
                         LET s == SchedulerReprioritizeRequest(Begin, r, p, i)
                             q == s.clients[c].pending_requests
                         IN  IF p = requests[r].priority
                                /\ i = requests[r].intra_priority
                             THEN s = Begin
                             ELSE /\ IsQueued(s, c, r)
                                  /\ s.requests[r].fifo_ordering
                                         > clients[c].fifo_ordering_ids
                                  /\ \A x \in SameKeyAs(s, c, r) :
                                         IndexOf(q, x) < IndexOf(q, r))
    /\ [][\A c \in ClientIds, r \in ReqIds :
              (/\ clients[c].exists /\ clients'[c].exists
               /\ \E k \in 1 .. Len(clients'[c].pending_requests) :
                      clients'[c].pending_requests[k] = r
               /\ \/ ~IsQueued(State, c, r)
                  \/ requests'[r].fifo_ordering # requests[r].fifo_ordering) =>
                  requests'[r].fifo_ordering > clients[c].fifo_ordering_ids]_vars

\* a pending handle with an older fifo ordering id than another pending
\* handle, which differs from it in the intra_priority alone
C28_Witness ==
    \E c \in ClientIds, r, x \in ReqIds :
        /\ Pending(c, r) /\ Pending(c, x)
        /\ requests[r].priority = requests[x].priority
        /\ requests[r].intra_priority # requests[x].intra_priority
        /\ requests[r].fifo_ordering < requests[x].fifo_ordering
        /\ x \in SameKeyAs(SchedulerReprioritizeRequest(
                               Begin, r, requests[x].priority,
                               requests[x].intra_priority), c, r)

\* the in-flight set of every client of client_map_ in state s
InFlightSets(s) ==
    [c \in DOMAIN s.clients |->
         IF s.clients[c].exists THEN s.clients[c].in_flight_requests ELSE {}]

\* the scans of every client that state s counts as waiting for its task
ScheduledScans(s) ==
    [c \in DOMAIN s.clients |->
         IF s.clients[c].exists
         THEN s.clients[c].num_skipped_scans_due_to_scheduled_start
         ELSE 0]

\* C29: ReprioritizeRequest schedules a re-evaluation pass of the handle's
\* client exactly when the handle is pending there and the new priority is
\* higher than the old: the client then counts one more scheduled scan and a
\* task of it is posted. With an in-flight handle, whatever becomes of its
\* Delayable attribute and of the in-flight delayable count, with a lower
\* or an equal priority, or with a new intra_priority alone, no task is
\* posted and no scan counted. In neither case does the call start a
\* pending request.
C29_PassScheduledIffPendingAndRaised ==
    \A r \in ReqIds, p \in Priorities, i \in IntraPriorities :
        Live(r) =>
            LET c == requests[r].client_id
                s == SchedulerReprioritizeRequest(Begin, r, p, i)
            IN  /\ InFlightSets(s) = InFlightSets(Begin)
                /\ IF Pending(c, r) /\ p > requests[r].priority
                   THEN /\ LoadTasks(s, c) # {}
                        /\ ScheduledScans(s) =
                               [ScheduledScans(Begin) EXCEPT ![c] = @ + 1]
                        /\ \A k \in 1 .. Len(tasks) : s.tasks[k] = tasks[k]
                   ELSE /\ s.tasks = tasks
                        /\ ScheduledScans(s) = ScheduledScans(Begin)

\* an in-flight delayable request holds a pending one back, no task is
\* posted, and a pass run after the first is made non-delayable would start
\* the second
C29_Witness ==
    \E c \in ClientIds, r, x \in ReqIds :
        /\ Flying(c, r) /\ Pending(c, x)
        /\ tasks = <<>>
        /\ LET s == SchedulerReprioritizeRequest(Begin, r, MEDIUM, 0)
           IN  /\ s.clients[c].in_flight_delayable_count
                      < clients[c].in_flight_delayable_count
               /\ InFlight(LoadAnyStartablePendingRequests(s, c), c, x)

\* state s with the connection type e and its params stored in client c
WithConnectionType(s, c, e) ==
    [s EXCEPT !.clients[c].effective_connection_type = e,
              !.clients[c].params_for_network_quality =
                  GetParamsForEffectiveConnectionType(e)]

\* C30: a connection-type notification with another value than the stored
\* one stores the value and its params and then runs a pass that decides
\* with them: the head of the queue is started exactly if the new params
\* admit it, and afterwards no pending request that the walk reaches is
\* admissible under them; no task is posted. A connection-type or
\* peer-to-peer-count notification with the stored value changes nothing.
C30_NewTypeDecidesWithNewParams ==
    \A c \in ClientIds :
        Registered(c) /\ clients[c].has_network_quality_estimator =>
            /\ \A e \in SlowOrFast :
                   LET s == ClientOnEffectiveConnectionTypeChanged(Begin, c, e)
                       s1 == WithConnectionType(Begin, c, e)
                       q == clients[c].pending_requests
                   IN  IF e = clients[c].effective_connection_type
                       THEN s = Begin
                       ELSE /\ s.clients[c].effective_connection_type = e
                            /\ s.clients[c].params_for_network_quality =
                                   GetParamsForEffectiveConnectionType(e)
                            /\ s.tasks = tasks
                            /\ q # <<>> =>
                                   (InFlight(s, c, q[1]) <=> Admissible(s1, c, q[1]))
                            /\ \A x \in ReqIds :
                                   IsQueued(s, c, x) /\ Admissible(s, c, x) =>
                                       \E y \in AheadOf(s, c, x) :
                                           ShouldStartRequest(s, c, y)
                                               = DO_NOT_START_REQUEST_AND_STOP_SEARCHING
            /\ ClientOnPeerToPeerConnectionsCountChange(
                   Begin, c, clients[c].p2p_connections_count) = Begin

\* the new params and the old decide differently on the head of the queue
\* while peer-to-peer connections are open
C30_Witness ==
    \E c \in ClientIds, e \in SlowOrFast :
        /\ Registered(c) /\ clients[c].has_network_quality_estimator
        /\ clients[c].pending_requests # <<>>
        /\ e # clients[c].effective_connection_type
        /\ Admissible(WithConnectionType(Begin, c, e), c, clients[c].pending_requests[1])
               # Admissible(Begin, c, clients[c].pending_requests[1])
        /\ clients[c].p2p_connections_count > 0

\* a P2P connection of client c is active in state s, or the last one
\* ended less than the pause window ago
P2PActiveOrRecent(s, c) ==
    \/ s.clients[c].p2p_connections_count > 0
    \/ /\ s.clients[c].p2p_connections_count_end_timestamp # None
       /\ now - s.clients[c].p2p_connections_count_end_timestamp
              < params_manager.time_to_pause_after_end_of_p2p

\* the connection type of client c in state s is between Slow-2G and 3G
SlowConnection(s, c) ==
    /\ s.clients[c].effective_connection_type > EFFECTIVE_CONNECTION_TYPE_OFFLINE
    /\ s.clients[c].effective_connection_type < EFFECTIVE_CONNECTION_TYPE_4G

C33_PendingImpliesTimer ==
    PendingRequestFound(State) => long_queued_timer

\* a request is pending with the timer running, a firing of the timer would
\* leave a request pending, and a re-evaluation task is posted
C33_Witness ==
    /\ PendingRequestFound(State) /\ long_queued_timer
    /\ PendingRequestFound(Sweep)
    /\ \E c \in ClientIds : Registered(c) /\ TaskPosted(c)

\* the handles in the in-flight set of client c whose attributes have both
\* kAttributeInFlight and kAttributeDelayable
InFlightDelayable(c) ==
    {x \in clients[c].in_flight_requests :
         RequestAttributesAreSet(requests[x].attributes,
                                 kAttributeInFlight \cup kAttributeDelayable)}

\* C34: a client's in_flight_delayable_count is the number of handles in
\* its in-flight set that have both the in-flight and the delayable
\* attribute, so it has not wrapped below 0 and is not larger than the set.
C34_DelayableCountIsExact ==
    \A c \in DOMAIN clients :
        Registered(c) =>
            /\ clients[c].in_flight_delayable_count
                   = Cardinality(InFlightDelayable(c))
            /\ clients[c].in_flight_delayable_count >= 0
            /\ clients[c].in_flight_delayable_count
                   <= Cardinality(clients[c].in_flight_requests)

\* C35: no handle ever has the layout-blocking attribute, whatever the page's
\* layout waits for, and every client's total_layout_blocking_count is 0, so
\* the layout-blocking phase of ShouldStartRequest is never entered.
C35_LayoutBlockingNeverSet ==
    /\ \A r \in ReqIds :
           Live(r) =>
               ~RequestAttributesAreSet(requests[r].attributes,
                                        kAttributeLayoutBlocking)
    /\ \A c \in ClientIds :
           Registered(c) => clients[c].total_layout_blocking_count = 0

\* a request the page's layout waits for is in flight with two delayable
\* requests submitted after it
C35_Witness ==
    \E c \in ClientIds, l \in ReqIds :
        /\ Flying(c, l) /\ requests[l].layout_blocking
        /\ Cardinality(DelayableInFlightSince(c, l)) = 2

\* the pass of client c run in state s, with the handler's history cleared
PassOn(s, c) == LoadAnyStartablePendingRequests([s EXCEPT !.obs = NoObs], c)

\* C36: a pass run on a client right after a pass of that client, at the
\* same time and with nothing in between, starts no request and changes
\* nothing: not the pending queue, the in-flight set or a count of any
\* client, not a request, a posted task, the unowned pool or the timer.
C36_PassIsFixedPoint ==
    \A c \in ClientIds :
        Registered(c) /\ clients[c].pending_requests # <<>> =>
            \A s0 \in PassStarts(c) \cup {State} :
                LET s1 == PassOn(s0, c)
                IN  PassOn(s1, c) = [s1 EXCEPT !.obs = NoObs]

\* a pass that starts a request here and leaves another pending
C36_Witness ==
    \E c \in ClientIds :
        /\ Registered(c)
        /\ Len(PassFrom(c).clients[c].pending_requests)
               < Len(clients[c].pending_requests)
        /\ PassFrom(c).clients[c].pending_requests # <<>>

\* the iteration at index i in state s stops the loop, shrinks the queue or
\* moves the iterator on over a queue it leaves alone
Progress(s, c, i) ==
    LET t == LoadStep(s, c, i)
        before == s.clients[c].pending_requests
        after == t.s.clients[c].pending_requests
    IN  \/ t.done
        \/ Len(after) < Len(before)
        \/ after = before /\ t.i = i + 1

\* every iteration of the loop entered in state s with the iterator at i
\* makes progress
RECURSIVE EveryStepProgresses(_, _, _)
EveryStepProgresses(s, c, i) ==
    IF i > Len(s.clients[c].pending_requests) THEN TRUE
    ELSE /\ Progress(s, c, i)
         /\ LET t == LoadStep(s, c, i)
            IN  t.done \/ EveryStepProgresses(t.s, c, t.i)

\* the number of iterations the loop runs when entered in state s with the
\* iterator at i
RECURSIVE Iterations(_, _, _)
Iterations(s, c, i) ==
    IF i > Len(s.clients[c].pending_requests) THEN 0
    ELSE LET t == LoadStep(s, c, i)
         IN  IF t.done THEN 1 ELSE 1 + Iterations(t.s, c, t.i)

\* the state the loop leaves when entered in state s with the iterator at i
RECURSIVE LoopResult(_, _, _)
LoopResult(s, c, i) ==
    IF i > Len(s.clients[c].pending_requests) THEN s
    ELSE LET t == LoadStep(s, c, i)
         IN  IF t.done THEN t.s ELSE LoopResult(t.s, c, t.i)

\* C37: the loop of a pass ends for every pending queue: each iteration
\* starts a request, and the queue is one shorter, or goes on to the next
\* request, or leaves the loop; a queue of n requests is walked in at most
\* n (n + 1) / 2 iterations, which leave the state the pass leaves.
C37_PassTerminates ==
    \A c \in ClientIds :
        Registered(c) /\ clients[c].pending_requests # <<>> =>
            \A s0 \in PassStarts(c) \cup {State} :
                LET n == Len(s0.clients[c].pending_requests)
                    s == [s0 EXCEPT !.obs = NoObs,
                             !.clients[c].num_skipped_scans_due_to_scheduled_start = 0]
                IN  /\ EveryStepProgresses(s, c, 1)
                    /\ Iterations(s, c, 1) <= (n * (n + 1)) \div 2
                    /\ LoopResult(s, c, 1) = PassOn(s0, c)

\* a pass that goes past a request it keeps, starts a later one and walks
\* the queue again from its head
C37_Witness ==
    \E c \in ClientIds :
        /\ Registered(c)
        /\ Len(PassFrom(c).clients[c].pending_requests)
               < Len(clients[c].pending_requests)
        /\ Iterations([Begin EXCEPT
                          !.clients[c].num_skipped_scans_due_to_scheduled_start = 0],
                      c, 1) > Len(clients[c].pending_requests)

\* client c counts scans that wait for its posted task
ScanScheduled(c) ==
    /\ clients[c].exists
    /\ clients[c].num_skipped_scans_due_to_scheduled_start > 0

\* C38: while a client counts scheduled scans a re-evaluation task of it is
\* posted, and, the sequence running its tasks, the count returns to 0,
\* which only a pass of the client does, unless the client is deleted
\* first; in a step that returns it to 0 with the client alive a pass of the
\* client has run, so no pending request is left that the pass would start.
C38_NoTriggerLost ==
    /\ [](\A c \in ClientIds : ScanScheduled(c) => TaskPosted(c))
    /\ \A c \in ClientIds : ScanScheduled(c) ~> ~ScanScheduled(c)
    /\ [][\A c \in ClientIds :
              ScanScheduled(c) /\ clients'[c].exists /\ ~ScanScheduled(c)' =>
                  \A x \in ReqIds :
                      (\E k \in 1 .. Len(clients'[c].pending_requests) :
                           clients'[c].pending_requests[k] = x) =>
                          x \notin PassFrom(c)'.clients[c].in_flight_requests]_vars

\* a request raised to a non-delayable priority is pending while its
\* client counts a scheduled scan, and the pass would start it
C38_Witness ==
    \E c \in ClientIds, r \in ReqIds :
        /\ ScanScheduled(c) /\ Pending(c, r)
        /\ requests[r].priority = MEDIUM
        /\ r \in PassFrom(c).clients[c].in_flight_requests

\* C39: Start never meets a handle that is ready; a resume callback runs
\* only for a handle that WillStartRequest deferred and that is not ready
\* and not cancelled, and leaves it ready and no longer deferred; a ready
\* handle stays ready and is never deferred, so the callback runs at most
\* once; and a handle cancelled before it is ready is never resumed and
\* never becomes ready.
C39_StartOnceResumeOnce ==
    /\ [](/\ ~obs.started_ready
          /\ \A r \in ReqIds : Live(r) /\ requests[r].ready => ~requests[r].deferred)
    /\ [][\A r \in ReqIds :
              requests[r].state = "live" /\ requests'[r].state = "live" =>
                  /\ r \in obs'.resumed =>
                         /\ requests[r].deferred /\ requests[r].will_start_called
                         /\ ~requests[r].ready /\ ~requests[r].cancelled
                         /\ requests'[r].ready /\ ~requests'[r].deferred
                  /\ requests[r].ready => requests'[r].ready
                  /\ requests[r].cancelled /\ ~requests[r].ready =>
                         ~requests'[r].ready /\ r \notin obs'.resumed]_vars

\* a handle that WillStartRequest deferred and that was cancelled afterwards
\* has been started: it is in flight, no task of the sequence is outstanding,
\* and it is neither ready nor resumed
C39_Witness ==
    \E r \in ReqIds :
        /\ Live(r) /\ requests[r].cancelled /\ requests[r].deferred
        /\ requests[r].will_start_called /\ ~requests[r].ready
        /\ Admitted(r) /\ tasks = <<>> /\ r \notin obs.resumed

\* C40: no two distinct pairs (child_id, route_id) yield one ClientId:
\* whenever a client is registered under the identifier of a pair, no other
\* pair has that identifier, so the Client found under a pair is the one
\* constructed for the pair's process and a handle's client is that of the
\* pair it was submitted under.
C40_MakeClientIdInjective ==
    \A c1, c2 \in ChildIds : \A r1, r2 \in RouteIds :
        clients[MakeClientId(c1, r1)].exists =>
            /\ <<c1, r1>> # <<c2, r2>> => MakeClientId(c1, r1) # MakeClientId(c2, r2)
            /\ clients[MakeClientId(c1, r1)].is_browser_client = (c1 = kBrowserProcessId)

====
